---- MODULE Spec2Model ----
(***************************************************************************)
(* image-to-figma: the node schema and validator (shared/spec.ts), the     *)
(* server's normalizer (normalizeNode / normalizeSpec), and the plugin's   *)
(* renderer with its coordinate resolver (chooseLocalPosition,             *)
(* detectCoordinateMode, fitScore, inferPillRadius).                       *)
(*                                                                         *)
(* Three specifications share the variables below:                         *)
(*   SpecResolve  the coordinate resolver's pure functions on drawn inputs *)
(*   SpecNorm     normalizeSpec and DesignSpecSchema.parse on raw JSON     *)
(*   Spec         the plugin's message handler and renderToFigma           *)
(***************************************************************************)
EXTENDS Integers, Sequences, FiniteSets, TLC

VARIABLES
  rArgs,    \* resolver: the arguments of one chooseLocalPosition call
  rOut,     \* resolver: what the call returned
  raw,      \* pipeline: the parsed JSON document received
  norm,     \* pipeline: normalizeSpec's result
  parsed,   \* pipeline: DesignSpecSchema.parse's result
  again,    \* pipeline: the plugin's parse of the server's validated output
  npc,      \* pipeline: position in the pipeline
  msg,      \* render: the message the plugin's handler receives
  doc,      \* render: the validated DesignSpec being rendered
  stack,    \* render: the pending renderNode loops (innermost last)
  objects,  \* render: canvas objects of this render, in the order they were attached
  pending,  \* render: the font load or image paint the current renderNode awaits
  fontCache, \* render: loadFont's memo, each key with how its promise settles
  loads,    \* render: the host font loads requested, each with its invocation
  run,      \* render: the invocations of renderToFigma so far
  selection, \* render: the invocation whose root is selected on the page (0: none)
  log,      \* render: the lines sent to the UI by uiLog
  error,    \* render: what made the handler's try block throw
  pc,       \* render: position of the handler and of renderToFigma
  urlStats, \* render: msg.spec as normalizeImageUrls left it, and its two counters
  wire,     \* stream: the NDJSON lines the upstream generator sends
  sent,     \* stream: how much of the upstream bytes reader.read() has returned
  buffer,   \* stream: the decoded text not yet split into lines
  full,     \* stream: the response fragments assembled so far
  written,  \* stream: the lines written to the client
  spc       \* stream: position of the streaming branch

vars == <<rArgs, rOut, raw, norm, parsed, again, npc, msg, doc, stack, objects, pending,
          fontCache, loads, run, selection, log, error, pc, urlStats,
          wire, sent, buffer, full, written, spc>>

(***************************************************************************)
(* JSON values.  A field holds a tagged value:                             *)
(*   k = "none"    the key is absent (undefined)                           *)
(*   k = "num"     a finite number n                                       *)
(*   k = "numstr"  a string whose Number() is the finite number n          *)
(*   k = "str"     any other string, s                                     *)
(*   k = "obj"     an object; s names which one                            *)
(***************************************************************************)
None == [k |-> "none", n |-> 0, s |-> ""]
Num(v) == [k |-> "num", n |-> v, s |-> ""]
NumStr(v) == [k |-> "numstr", n |-> v, s |-> ""]
Str(t) == [k |-> "str", n |-> 0, s |-> t]
Obj(t) == [k |-> "obj", n |-> 0, s |-> t]

\* typeof v === "string"
IsString(v) == v.k \in {"str", "numstr"}

\* JavaScript truthiness of a field value
Truthy(v) ==
  CASE v.k = "none" -> FALSE
    [] v.k = "num" -> v.n # 0
    [] v.k = "str" -> v.s # ""
    [] OTHER -> TRUE

(***************************************************************************)
(* Coordinate resolver (plugin renderer)                                   *)
(***************************************************************************)
tol == 1

fitScoreStrict(x, y, width, height, parentWidth, parentHeight) ==
    (IF x > -tol THEN 1 ELSE 0)
  + (IF y > -tol THEN 1 ELSE 0)
  + (IF x + width < parentWidth + tol THEN 1 ELSE 0)
  + (IF y + height < parentHeight + tol THEN 1 ELSE 0)

fitScore(x, y, width, height, parentWidth, parentHeight) ==
    (IF x >= -tol THEN 1 ELSE 0)
  + (IF y >= -tol THEN 1 ELSE 0)
  + (IF x + width <= parentWidth + tol THEN 1 ELSE 0)
  + (IF y + height <= parentHeight + tol THEN 1 ELSE 0)

\* Mutant: the preferred mode is consulted before the scores are compared.
chooseLocalPositionModeFirst(node, parentAbsX, parentAbsY, parentWidth, parentHeight, preferredCoordinateMode) ==
  IF preferredCoordinateMode = "absolute"
  THEN [x |-> node.x.n - parentAbsX, y |-> node.y.n - parentAbsY]
  ELSE [x |-> node.x.n, y |-> node.y.n]

chooseLocalPosition(node, parentAbsX, parentAbsY, parentWidth, parentHeight, preferredCoordinateMode) ==
  LET relative == [x |-> node.x.n, y |-> node.y.n]
      absolute == [x |-> node.x.n - parentAbsX, y |-> node.y.n - parentAbsY]
      relScore == fitScore(relative.x, relative.y, node.width.n, node.height.n,
                           parentWidth, parentHeight)
      absScore == fitScore(absolute.x, absolute.y, node.width.n, node.height.n,
                           parentWidth, parentHeight)
  IN CASE absScore > relScore -> absolute
       [] relScore > absScore -> relative
       [] preferredCoordinateMode = "absolute" -> absolute
       [] preferredCoordinateMode = "relative" -> relative
       \* tie-breaker of the source, reached only for a mode that is neither
       [] parentAbsX # 0 \/ parentAbsY # 0 -> absolute
       [] OTHER -> relative

RECURSIVE SumRel(_, _, _), SumAbs(_, _, _, _, _)
\* relativeScore of detectCoordinateMode's loop
SumRel(nodes, parentWidth, parentHeight) ==
  IF nodes = <<>> THEN 0
  ELSE fitScore(Head(nodes).x.n, Head(nodes).y.n, Head(nodes).width.n,
                Head(nodes).height.n, parentWidth, parentHeight)
       + SumRel(Tail(nodes), parentWidth, parentHeight)

\* absoluteScore of detectCoordinateMode's loop
SumAbs(nodes, parentAbsX, parentAbsY, parentWidth, parentHeight) ==
  IF nodes = <<>> THEN 0
  ELSE fitScore(Head(nodes).x.n - parentAbsX, Head(nodes).y.n - parentAbsY,
                Head(nodes).width.n, Head(nodes).height.n, parentWidth, parentHeight)
       + SumAbs(Tail(nodes), parentAbsX, parentAbsY, parentWidth, parentHeight)

\* Mutant: the aggregate comparison is inverted.
detectCoordinateModeInverted(nodes, parentAbsX, parentAbsY, parentWidth, parentHeight) ==
  IF SumAbs(nodes, parentAbsX, parentAbsY, parentWidth, parentHeight)
       > SumRel(nodes, parentWidth, parentHeight)
  THEN "relative" ELSE "absolute"

detectCoordinateMode(nodes, parentAbsX, parentAbsY, parentWidth, parentHeight) ==
  IF SumAbs(nodes, parentAbsX, parentAbsY, parentWidth, parentHeight)
       > SumRel(nodes, parentWidth, parentHeight)
  THEN "absolute" ELSE "relative"

\* Mutant: the fill test is dropped.
inferPillRadiusNoFillTest(width, height, hasFill, explicitCornerRadius) ==
  IF explicitCornerRadius.k # "none" THEN explicitCornerRadius
  ELSE IF height <= 28 /\ 10 * width >= 16 * height THEN Num(height \div 2)
  ELSE None

\* width >= height * 1.6 is 10 * width >= 16 * height; Math.floor(height / 2) is \div
inferPillRadius(width, height, hasFill, explicitCornerRadius) ==
  IF explicitCornerRadius.k # "none" THEN explicitCornerRadius
  ELSE IF ~hasFill THEN None
  ELSE IF height <= 28 /\ 10 * width >= 16 * height THEN Num(height \div 2)
  ELSE None

(***************************************************************************)
(* Nodes.  Every node is a record over the same keys; a key the JSON object *)
(* does not carry holds None.  json tells an object from null and from a    *)
(* scalar; childrenKind tells an array from an absent key and from a value  *)
(* that is no array; extra is a key no schema knows.                        *)
(***************************************************************************)
BlankNode ==
  [json |-> "object", type |-> "", name |-> None,
   x |-> None, y |-> None, width |-> None, height |-> None, opacity |-> None,
   fill |-> None, stroke |-> None, strokeWidth |-> None, cornerRadius |-> None,
   text |-> None, fontFamily |-> None, fontStyle |-> None, fontWeight |-> None,
   fontSize |-> None, color |-> None, alignHorizontal |-> None, textAlign |-> None,
   imageUrl |-> None, imageDataUrl |-> None, scaleMode |-> None,
   layoutMode |-> None, padding |-> None, itemSpacing |-> None,
   childrenKind |-> "none", children |-> <<>>, extra |-> None]

NodeTypes == {"rect", "text", "frame", "ellipse", "image"}

\* The keys each schema of the union declares (zod strips every other key).
BaseKeys == {"json", "type", "name", "x", "y", "width", "height", "opacity"}
RectKeys == BaseKeys \cup {"fill", "stroke", "strokeWidth", "cornerRadius"}
TextKeys == BaseKeys \cup {"text", "fontFamily", "fontStyle", "fontSize", "fill",
                           "alignHorizontal"}
FrameKeys == BaseKeys \cup {"layoutMode", "padding", "itemSpacing", "fill", "stroke",
                            "strokeWidth", "cornerRadius", "childrenKind", "children"}
EllipseKeys == BaseKeys \cup {"fill", "stroke", "strokeWidth"}
ImageKeys == BaseKeys \cup {"imageUrl", "imageDataUrl", "scaleMode", "cornerRadius",
                            "stroke", "strokeWidth"}

KeysOf(type) ==
  CASE type = "rect" -> RectKeys
    [] type = "text" -> TextKeys
    [] type = "frame" -> FrameKeys
    [] type = "ellipse" -> EllipseKeys
    [] type = "image" -> ImageKeys
    [] OTHER -> BaseKeys

\* A zod object's output: the declared keys only.
Strip(n, keys) == [f \in DOMAIN n |-> IF f \in keys THEN n[f] ELSE BlankNode[f]]

(***************************************************************************)
(* Schema and validator (shared/spec.ts)                                   *)
(***************************************************************************)
IsNumber(v) == v.k = "num"
Optional(v, ok) == v.k = "none" \/ ok

\* ColorSchema: an object whose channels lie in [0, 1]; "color" names one that
\* does, any other object or value does not.
ColorSchema(v) == v.k = "obj" /\ v.s = "color"

\* Mutant: width and height must be numbers, not positive numbers.
NodeBaseSchemaAnySize(n) ==
  /\ n.json = "object"
  /\ Optional(n.name, IsString(n.name))
  /\ IsNumber(n.x)
  /\ IsNumber(n.y)
  /\ IsNumber(n.width)
  /\ IsNumber(n.height)
  /\ Optional(n.opacity, IsNumber(n.opacity) /\ n.opacity.n >= 0 /\ n.opacity.n <= 1)

NodeBaseSchema(n) ==
  /\ n.json = "object"
  /\ Optional(n.name, IsString(n.name))
  /\ IsNumber(n.x)
  /\ IsNumber(n.y)
  /\ IsNumber(n.width) /\ n.width.n > 0
  /\ IsNumber(n.height) /\ n.height.n > 0
  /\ Optional(n.opacity, IsNumber(n.opacity) /\ n.opacity.n >= 0 /\ n.opacity.n <= 1)

MinZero(v) == Optional(v, IsNumber(v) /\ v.n >= 0)

RectNodeSchema(n) ==
  /\ NodeBaseSchema(n)
  /\ n.type = "rect"
  /\ Optional(n.fill, ColorSchema(n.fill))
  /\ Optional(n.stroke, ColorSchema(n.stroke))
  /\ MinZero(n.strokeWidth)
  /\ MinZero(n.cornerRadius)

AlignValues == {"LEFT", "CENTER", "RIGHT", "JUSTIFIED"}

TextNodeSchema(n) ==
  /\ NodeBaseSchema(n)
  /\ n.type = "text"
  /\ IsString(n.text)
  /\ Optional(n.fontFamily, IsString(n.fontFamily))
  /\ Optional(n.fontStyle, IsString(n.fontStyle))
  /\ Optional(n.fontSize, IsNumber(n.fontSize) /\ n.fontSize.n > 0)
  /\ Optional(n.fill, ColorSchema(n.fill))
  /\ Optional(n.alignHorizontal,
              n.alignHorizontal.k = "str" /\ n.alignHorizontal.s \in AlignValues)

EllipseNodeSchema(n) ==
  /\ NodeBaseSchema(n)
  /\ n.type = "ellipse"
  /\ Optional(n.fill, ColorSchema(n.fill))
  /\ Optional(n.stroke, ColorSchema(n.stroke))
  /\ MinZero(n.strokeWidth)

\* The strings of the model that start with "data:image/".
DataImageStrings == {"data:image/png;base64,iVBORw0KGgo=", "data:image/"}

\* ImageNodeSchema's object part, before its refinement
ImageNodeObject(n) ==
  /\ NodeBaseSchema(n)
  /\ n.type = "image"
  /\ Optional(n.imageUrl, IsString(n.imageUrl) /\ (n.imageUrl.k = "numstr" \/ n.imageUrl.s # ""))
  /\ Optional(n.imageDataUrl,
              n.imageDataUrl.k = "str" /\ n.imageDataUrl.s \in DataImageStrings)
  /\ Optional(n.scaleMode,
              n.scaleMode.k = "str" /\ n.scaleMode.s \in {"FILL", "FIT", "CROP", "TILE"})
  /\ MinZero(n.cornerRadius)
  /\ Optional(n.stroke, ColorSchema(n.stroke))
  /\ MinZero(n.strokeWidth)

\* Mutant: the refinement is missing.
ImageNodeSchemaNoRefine(n) == ImageNodeObject(n)

\* .refine((v) => Boolean(v.imageUrl || v.imageDataUrl))
ImageNodeSchema(n) ==
  /\ ImageNodeObject(n)
  /\ (Truthy(n.imageUrl) \/ Truthy(n.imageDataUrl))

LayoutModes == {"NONE", "HORIZONTAL", "VERTICAL"}

\* Mutant: the enum of layoutMode lacks the value its default fills in.
LayoutModeSchemaNoNone(v) == Optional(v, v.k = "str" /\ v.s \in {"HORIZONTAL", "VERTICAL"})

\* layoutMode: z.enum(["NONE", "HORIZONTAL", "VERTICAL"]).default("NONE")
LayoutModeSchema(v) == Optional(v, v.k = "str" /\ v.s \in LayoutModes)

\* FrameNodeSchema without its children; "padding" names an object whose sides
\* are numbers >= 0 (or absent), any other value does not pass.
FrameNodeObject(n) ==
  /\ NodeBaseSchema(n)
  /\ n.type = "frame"
  /\ LayoutModeSchema(n.layoutMode)
  /\ Optional(n.padding, n.padding.k = "obj" /\ n.padding.s = "padding")
  /\ MinZero(n.itemSpacing)
  /\ Optional(n.fill, ColorSchema(n.fill))
  /\ Optional(n.stroke, ColorSchema(n.stroke))
  /\ MinZero(n.strokeWidth)
  /\ MinZero(n.cornerRadius)
  /\ n.childrenKind \in {"none", "array"}

\* The union member that accepts the node itself (children apart): the type
\* literals are disjoint, so at most one member can.
NodeShapeOk(n) ==
  CASE n.type = "rect" -> RectNodeSchema(n)
    [] n.type = "text" -> TextNodeSchema(n)
    [] n.type = "ellipse" -> EllipseNodeSchema(n)
    [] n.type = "image" -> ImageNodeSchema(n)
    [] n.type = "frame" -> FrameNodeObject(n)
    [] OTHER -> FALSE

RECURSIVE DesignNodeSchema(_), DesignNodeArray(_)
\* z.array(DesignNodeSchema): [ok, out], out the parsed elements
DesignNodeArray(nodes) ==
  IF nodes = <<>> THEN [ok |-> TRUE, out |-> <<>>]
  ELSE LET h == DesignNodeSchema(Head(nodes))
           t == DesignNodeArray(Tail(nodes))
       IN [ok |-> h.ok /\ t.ok, out |-> <<h.out>> \o t.out]

\* DesignNodeSchema.safeParse: [ok, out]; out is the typed node, defaults
\* applied and undeclared keys stripped (the input itself when ok is FALSE).
DesignNodeSchema(n) ==
  IF ~NodeShapeOk(n) THEN [ok |-> FALSE, out |-> n]
  ELSE IF n.type = "frame"
  THEN LET kids == DesignNodeArray(IF n.childrenKind = "array" THEN n.children ELSE <<>>)
           s == Strip(n, FrameKeys)
       IN [ok |-> kids.ok,
           out |-> [s EXCEPT !.layoutMode = IF n.layoutMode.k = "none" THEN Str("NONE")
                                            ELSE n.layoutMode,
                             !.childrenKind = "array",
                             !.children = kids.out]]
  ELSE [ok |-> TRUE, out |-> Strip(n, KeysOf(n.type))]

\* A document: json tells a JSON object from null and from a value of another
\* kind; canvasKind / nodesKind tell a present object / array from an absent
\* key ("none"), from null and from a value of another kind ("other").
BlankSpec ==
  [json |-> "object",
   canvasKind |-> "none", canvas |-> [name |-> None, width |-> None, height |-> None],
   nodesKind |-> "none", nodes |-> <<>>]

DefaultCanvasName == "Generated from Image"

\* DesignSpecSchema.safeParse: [ok, out]
DesignSpecSchema(d) ==
  LET c == d.canvas
      canvasOk == /\ d.json = "object"
                  /\ d.canvasKind = "object"
                  /\ Optional(c.name, IsString(c.name))
                  /\ IsNumber(c.width) /\ c.width.n > 0
                  /\ IsNumber(c.height) /\ c.height.n > 0
      kids == DesignNodeArray(IF d.nodesKind = "array" THEN d.nodes ELSE <<>>)
  IN IF ~canvasOk \/ d.nodesKind \in {"other", "null"} \/ ~kids.ok
     THEN [ok |-> FALSE, out |-> BlankSpec]
     ELSE [ok |-> TRUE,
           out |-> [json |-> "object", canvasKind |-> "object",
                    canvas |-> [name |-> IF c.name.k = "none" THEN Str(DefaultCanvasName)
                                         ELSE c.name,
                                width |-> c.width, height |-> c.height],
                    nodesKind |-> "array", nodes |-> kids.out]]

(***************************************************************************)
(* Normalizer (server)                                                     *)
(***************************************************************************)
\* Mutant: what does not coerce counts as 0 (Number(value) || 0).
toNumberLoose(value) == IF value.k \in {"num", "numstr"} THEN Num(value.n) ELSE Num(0)

\* toNumber: a finite number, or a non-blank string whose Number() is finite;
\* None stands for its null
toNumber(value) == IF value.k \in {"num", "numstr"} THEN Num(value.n) ELSE None

\* the text of a string value, as a template literal prints it
TextOf(v) == IF v.k = "numstr" THEN ToString(v.n) ELSE v.s

\* Mutant: the thresholds are the midpoints between the named weights.
FontStyleOfWeightRounded(weight) ==
  IF weight >= 650 THEN "Bold"
  ELSE IF weight >= 550 THEN "Semibold"
  ELSE IF weight >= 450 THEN "Medium"
  ELSE "Regular"

\* the weight ladder of normalizeNode's text branch
FontStyleOfWeight(weight) ==
  IF weight >= 700 THEN "Bold"
  ELSE IF weight >= 600 THEN "Semibold"
  ELSE IF weight >= 500 THEN "Medium"
  ELSE "Regular"

\* map[input.textAlign.toLowerCase()], over the spellings of the model
AlignOfTextAlign(s) ==
  CASE s \in {"left", "Left", "LEFT"} -> Str("LEFT")
    [] s \in {"center", "Center", "CENTER"} -> Str("CENTER")
    [] s \in {"right", "Right", "RIGHT"} -> Str("RIGHT")
    [] s \in {"justified", "Justified", "JUSTIFIED"} -> Str("JUSTIFIED")
    [] OTHER -> None

\* { top: toNumber(input.padding.top) ?? undefined, ... }: "padding-str" names
\* an object whose sides are numeric strings, which come out as numbers
NormalizePadding(v) == IF v.s = "padding-str" THEN Obj("padding") ELSE v

PlaceholderRadius == 8

\* Mutant: the placeholder keeps the type "image".
ImagePlaceholderKeepsType(input) ==
  [BlankNode EXCEPT
     !.type = "image",
     !.name = IF IsString(input.name) THEN Str(TextOf(input.name) \o " Placeholder")
              ELSE Str("Image Placeholder"),
     !.x = toNumber(input.x), !.y = toNumber(input.y),
     !.width = toNumber(input.width), !.height = toNumber(input.height),
     !.cornerRadius = IF toNumber(input.cornerRadius).k = "none" THEN Num(PlaceholderRadius)
                      ELSE toNumber(input.cornerRadius),
     !.fill = Obj("color")]

\* the rect that normalizeNode returns for an image without a source
ImagePlaceholder(input) ==
  [BlankNode EXCEPT
     !.type = "rect",
     !.name = IF IsString(input.name) THEN Str(TextOf(input.name) \o " Placeholder")
              ELSE Str("Image Placeholder"),
     !.x = toNumber(input.x), !.y = toNumber(input.y),
     !.width = toNumber(input.width), !.height = toNumber(input.height),
     !.cornerRadius = IF toNumber(input.cornerRadius).k = "none" THEN Num(PlaceholderRadius)
                      ELSE toNumber(input.cornerRadius),
     !.fill = Obj("color")]

\* Mutant: the branches start from a copy of the input ({ ...input, type, x, ... }).
NormalizeBaseSpread(input) ==
  [input EXCEPT
     !.x = toNumber(input.x), !.y = toNumber(input.y),
     !.width = toNumber(input.width), !.height = toNumber(input.height),
     !.name = IF IsString(input.name) THEN input.name ELSE None,
     !.opacity = toNumber(input.opacity)]

\* the keys every branch of normalizeNode starts from
NormalizeBase(input) ==
  [BlankNode EXCEPT
     !.type = input.type,
     !.x = toNumber(input.x), !.y = toNumber(input.y),
     !.width = toNumber(input.width), !.height = toNumber(input.height),
     !.name = IF IsString(input.name) THEN input.name ELSE None,
     !.opacity = toNumber(input.opacity)]

NormalizeText(input, base) ==
  [base EXCEPT
     !.text = IF IsString(input.text) THEN input.text ELSE Str(""),
     !.fontFamily = IF IsString(input.fontFamily) THEN input.fontFamily ELSE None,
     !.fontStyle = IF IsString(input.fontStyle) THEN input.fontStyle
                   ELSE IF toNumber(input.fontWeight).k = "none" THEN None
                   ELSE Str(FontStyleOfWeight(toNumber(input.fontWeight).n)),
     !.fontSize = toNumber(input.fontSize),
     !.fill = IF Truthy(input.fill) THEN input.fill
              ELSE IF Truthy(input.color) THEN input.color ELSE None,
     !.alignHorizontal = IF IsString(input.alignHorizontal) THEN input.alignHorizontal
                         ELSE IF IsString(input.textAlign)
                         THEN AlignOfTextAlign(TextOf(input.textAlign))
                         ELSE None]

\* Mutant: the rect branch carries the input's children along.
NormalizeRectKeepsChildren(input, base) ==
  [base EXCEPT
     !.fill = IF Truthy(input.fill) THEN input.fill ELSE None,
     !.stroke = IF Truthy(input.stroke) THEN input.stroke ELSE None,
     !.strokeWidth = toNumber(input.strokeWidth),
     !.cornerRadius = toNumber(input.cornerRadius),
     !.childrenKind = input.childrenKind,
     !.children = input.children]

NormalizeRect(input, base) ==
  [base EXCEPT
     !.fill = IF Truthy(input.fill) THEN input.fill ELSE None,
     !.stroke = IF Truthy(input.stroke) THEN input.stroke ELSE None,
     !.strokeWidth = toNumber(input.strokeWidth),
     !.cornerRadius = toNumber(input.cornerRadius)]

NormalizeEllipse(input, base) ==
  [base EXCEPT
     !.fill = IF Truthy(input.fill) THEN input.fill ELSE None,
     !.stroke = IF Truthy(input.stroke) THEN input.stroke ELSE None,
     !.strokeWidth = toNumber(input.strokeWidth)]

NormalizeImage(input, base) ==
  IF ~IsString(input.imageUrl) /\ ~IsString(input.imageDataUrl)
  THEN ImagePlaceholder(input)
  ELSE [base EXCEPT
          !.imageUrl = IF IsString(input.imageUrl) THEN input.imageUrl ELSE None,
          !.imageDataUrl = IF IsString(input.imageDataUrl) THEN input.imageDataUrl ELSE None,
          !.scaleMode = IF IsString(input.scaleMode) THEN input.scaleMode ELSE None,
          !.cornerRadius = toNumber(input.cornerRadius),
          !.stroke = IF Truthy(input.stroke) THEN input.stroke ELSE None,
          !.strokeWidth = toNumber(input.strokeWidth)]

RECURSIVE normalizeNode(_), NormalizeNodes(_)
\* input.map(normalizeNode).filter(Boolean)
NormalizeNodes(nodes) ==
  IF nodes = <<>> THEN <<>>
  ELSE LET h == normalizeNode(Head(nodes))
       IN (IF h.ok THEN <<h.out>> ELSE <<>>) \o NormalizeNodes(Tail(nodes))

\* normalizeNode: [ok, out]; ok = FALSE stands for its null
normalizeNode(input) ==
  IF \/ input.json # "object"
     \/ input.type \notin NodeTypes
     \/ toNumber(input.x).k = "none" \/ toNumber(input.y).k = "none"
     \/ toNumber(input.width).k = "none" \/ toNumber(input.height).k = "none"
  THEN [ok |-> FALSE, out |-> input]
  ELSE LET base == NormalizeBase(input)
       IN [ok |-> TRUE,
           out |-> CASE input.type = "text" -> NormalizeText(input, base)
                     [] input.type = "rect" -> NormalizeRect(input, base)
                     [] input.type = "ellipse" -> NormalizeEllipse(input, base)
                     [] input.type = "image" -> NormalizeImage(input, base)
                     [] OTHER ->
                        [base EXCEPT
                           !.layoutMode = IF IsString(input.layoutMode) THEN input.layoutMode
                                          ELSE None,
                           !.padding = IF input.padding.k = "obj"
                                       THEN NormalizePadding(input.padding) ELSE None,
                           !.itemSpacing = toNumber(input.itemSpacing),
                           !.fill = IF Truthy(input.fill) THEN input.fill ELSE None,
                           !.stroke = IF Truthy(input.stroke) THEN input.stroke ELSE None,
                           !.strokeWidth = toNumber(input.strokeWidth),
                           !.cornerRadius = toNumber(input.cornerRadius),
                           !.childrenKind = IF input.childrenKind = "array" THEN "array"
                                            ELSE "none",
                           !.children = IF input.childrenKind = "array"
                                        THEN NormalizeNodes(input.children) ELSE <<>>]]

\* reading a property of a value raises a TypeError when the value is null or
\* undefined ("none"), unless the access is optional-chained (?.)
AccessThrows(kind, optional) == kind \in {"null", "none"} /\ ~optional

RECURSIVE normalizeNodeThrows(_), AnyNodeThrows(_)
\* some call of input.map(normalizeNode) raises
AnyNodeThrows(nodes) == \E i \in DOMAIN nodes : normalizeNodeThrows(nodes[i])

\* whether normalizeNode(input) raises: it returns null for a value that is
\* no object before it reads any property; input.padding.top and
\* input.textAlign.toLowerCase() are read behind their typeof tests
normalizeNodeThrows(input) ==
  IF input.json # "object" THEN FALSE
  ELSE \/ AccessThrows(input.json, FALSE)
       \/ /\ normalizeNode(input).ok
          /\ \/ input.padding.k = "obj" /\ AccessThrows(input.padding.k, FALSE)
             \/ IsString(input.textAlign) /\ AccessThrows(input.textAlign.k, FALSE)
             \/ /\ input.type = "frame" /\ input.childrenKind = "array"
                /\ AnyNodeThrows(input.children)

\* the kind of input?.canvas
CanvasKindOf(input) == IF input.json = "object" THEN input.canvasKind ELSE "none"

\* Mutant: input.canvas.name is read without optional chaining.
normalizeSpecThrowsUnchained(input) ==
  \/ AccessThrows(input.json, FALSE)
  \/ AccessThrows(CanvasKindOf(input), FALSE)
  \/ input.json = "object" /\ input.nodesKind = "array" /\ AnyNodeThrows(input.nodes)

\* whether normalizeSpec(input, width, height) raises: input?.canvas?.name,
\* input?.canvas?.width, input?.canvas?.height and input?.nodes are
\* optional-chained; input.nodes.map runs behind Array.isArray
normalizeSpecThrows(input) ==
  \/ AccessThrows(input.json, TRUE)
  \/ AccessThrows(CanvasKindOf(input), TRUE)
  \/ input.json = "object" /\ input.nodesKind = "array" /\ AnyNodeThrows(input.nodes)

\* normalizeSpec(input, width, height)
normalizeSpec(input, width, height) ==
  LET c == input.canvas
      has == CanvasKindOf(input) = "object"
  IN [json |-> "object", canvasKind |-> "object",
      canvas |-> [name |-> IF has /\ IsString(c.name) THEN c.name
                           ELSE Str(DefaultCanvasName),
                  width |-> IF has /\ toNumber(c.width).k # "none" THEN toNumber(c.width)
                            ELSE Num(width),
                  height |-> IF has /\ toNumber(c.height).k # "none" THEN toNumber(c.height)
                             ELSE Num(height)],
      nodesKind |-> "array",
      nodes |-> IF input.json = "object" /\ input.nodesKind = "array"
                THEN NormalizeNodes(input.nodes) ELSE <<>>]

(***************************************************************************)
(* Shared helpers of the three specifications                              *)
(***************************************************************************)
\* a node of the given type and geometry, every other key absent
Node(type, x, y, width, height) ==
  [BlankNode EXCEPT !.type = type, !.x = Num(x), !.y = Num(y),
                    !.width = Num(width), !.height = Num(height)]

\* all sequences over S of length 1..n
SeqsUpTo(S, n) == UNION {[1..k -> S] : k \in 1..n}

NoParse == [ok |-> FALSE, out |-> BlankSpec]
NoArgs == [node |-> BlankNode, parentAbsX |-> 0, parentAbsY |-> 0,
           parentWidth |-> 0, parentHeight |-> 0, mode |-> "relative"]
NoOut == [done |-> FALSE, pos |-> [x |-> 0, y |-> 0], relScore |-> 0, absScore |-> 0]

ResolverIdle == rArgs = NoArgs /\ rOut = NoOut
PipelineIdle == /\ raw = BlankSpec /\ norm = BlankSpec /\ parsed = NoParse
                /\ again = NoParse /\ npc = "off"
NoPending == [kind |-> "none", result |-> ""]
NoMessage == [type |-> "", spec |-> BlankSpec, shot |-> "none", sends |-> 0]
NoStats == [spec |-> BlankSpec, fixed |-> 0, replaced |-> 0]
RenderIdle == /\ msg = NoMessage /\ doc = BlankSpec /\ stack = <<>> /\ objects = <<>>
              /\ pending = NoPending /\ fontCache = {} /\ loads = <<>> /\ run = 0
              /\ selection = 0 /\ log = <<>> /\ error = "none" /\ pc = "off"
              /\ urlStats = NoStats
StreamIdle == /\ wire = <<>> /\ sent = 0 /\ buffer = <<>> /\ full = <<>>
              /\ written = <<>> /\ spc = "off"

resolverVars == <<rArgs, rOut>>
pipelineVars == <<raw, norm, parsed, again, npc>>
renderVars == <<msg, doc, stack, objects, pending, fontCache, loads, run, selection, log,
                error, pc, urlStats>>
streamVars == <<wire, sent, buffer, full, written, spc>>

(***************************************************************************)
(* SpecResolve: chooseLocalPosition and fitScore on drawn arguments        *)
(***************************************************************************)
MaxCoord == 5

ResolveArgs ==
  {[node |-> Node("rect", x, y, w, h), parentAbsX |-> px, parentAbsY |-> py,
    parentWidth |-> pw, parentHeight |-> ph, mode |-> m] :
     x \in -3..MaxCoord, y \in -3..MaxCoord, w \in {1, 2}, h \in {1, 2},
     px \in {0, 1, 3}, py \in {0, 3}, pw \in {2, 3}, ph \in {2},
     m \in {"relative", "absolute"}}

InitResolve ==
  rArgs \in ResolveArgs /\ rOut = NoOut /\ PipelineIdle /\ RenderIdle /\ StreamIdle

\* one call of chooseLocalPosition, with the two scores it computes
Resolve ==
  /\ ~rOut.done
  /\ rOut' = [done |-> TRUE,
              pos |-> chooseLocalPosition(rArgs.node, rArgs.parentAbsX, rArgs.parentAbsY,
                                          rArgs.parentWidth, rArgs.parentHeight, rArgs.mode),
              relScore |-> fitScore(rArgs.node.x.n, rArgs.node.y.n, rArgs.node.width.n,
                                    rArgs.node.height.n, rArgs.parentWidth,
                                    rArgs.parentHeight),
              absScore |-> fitScore(rArgs.node.x.n - rArgs.parentAbsX,
                                    rArgs.node.y.n - rArgs.parentAbsY, rArgs.node.width.n,
                                    rArgs.node.height.n, rArgs.parentWidth,
                                    rArgs.parentHeight)]
  /\ UNCHANGED <<rArgs, pipelineVars, renderVars, streamVars>>

NextResolve == Resolve

SpecResolve == InitResolve /\ [][NextResolve]_vars

\* C5: fitScore(x, y, width, height, parentWidth, parentHeight) is the number
\* of the four conditions x >= -1, y >= -1, x + width <= parentWidth + 1,
\* y + height <= parentHeight + 1 that hold, an integer in 0..4.
C5_FitScoreCountsConditions ==
  rOut.done =>
    LET a == rArgs
        Holds(x, y) == {c \in 1..4 :
                          \/ c = 1 /\ x >= -1
                          \/ c = 2 /\ y >= -1
                          \/ c = 3 /\ x + a.node.width.n <= a.parentWidth + 1
                          \/ c = 4 /\ y + a.node.height.n <= a.parentHeight + 1}
    IN /\ rOut.relScore = Cardinality(Holds(a.node.x.n, a.node.y.n))
       /\ rOut.absScore = Cardinality(Holds(a.node.x.n - a.parentAbsX,
                                            a.node.y.n - a.parentAbsY))
       /\ rOut.relScore \in 0..4 /\ rOut.absScore \in 0..4

\* a call scored exactly on the tolerance: x = -1 and y + height = parentHeight + 1
C5_Witness ==
  /\ rOut.done
  /\ rArgs.node.x.n = -1
  /\ rArgs.node.y.n + rArgs.node.height.n = rArgs.parentHeight + 1
  /\ rOut.relScore = 4

\* C2: when the relative and the absolute fit score of a node differ,
\* chooseLocalPosition returns the interpretation with the strictly higher
\* score, whatever preferred mode was passed and also when neither score is 4.
C2_HigherScoreWins ==
  rOut.done =>
    /\ rOut.relScore > rOut.absScore =>
         rOut.pos = [x |-> rArgs.node.x.n, y |-> rArgs.node.y.n]
    /\ rOut.absScore > rOut.relScore =>
         rOut.pos = [x |-> rArgs.node.x.n - rArgs.parentAbsX,
                     y |-> rArgs.node.y.n - rArgs.parentAbsY]

\* the preferred mode is relative, the absolute score is higher and below 4
C2_Witness ==
  /\ rOut.done
  /\ rArgs.mode = "relative"
  /\ rOut.absScore > rOut.relScore /\ rOut.absScore < 4
  /\ rOut.pos = [x |-> rArgs.node.x.n - rArgs.parentAbsX,
                 y |-> rArgs.node.y.n - rArgs.parentAbsY]
  /\ rOut.pos # [x |-> rArgs.node.x.n, y |-> rArgs.node.y.n]

(***************************************************************************)
(* SpecNorm: a raw document goes through DesignSpecSchema directly, or     *)
(* through normalizeSpec and then DesignSpecSchema (the server's /v1/      *)
(* figma-spec); a validated document is parsed again by the plugin.        *)
(***************************************************************************)
MaxNodes == 2

SpecOf(nodes) ==
  [json |-> "object", canvasKind |-> "object",
   canvas |-> [name |-> Str("Screen"), width |-> Num(1000), height |-> Num(800)],
   nodesKind |-> "array", nodes |-> nodes]

\* a node of the type that lacks nothing its schema requires
ValidLeaf(type, width, height) ==
  LET n == Node(type, 10, 20, width, height)
  IN CASE type = "text" -> [n EXCEPT !.text = Str("Hi")]
       [] type = "image" -> [n EXCEPT !.imageUrl = Str("https://img.test/a.png")]
       [] OTHER -> n

FrameWith(kids) ==
  [Node("frame", 0, 0, 400, 300) EXCEPT !.childrenKind = "array", !.children = kids]

TextFamily ==
  {[ValidLeaf("text", 100, 20) EXCEPT !.fontWeight = fw, !.fontStyle = fs,
                                      !.textAlign = ta, !.color = co] :
     fw \in {None, Num(400), Num(450), Num(499), Num(500), Num(600), Num(700),
             NumStr(700), NumStr(450), Str("bold")},
     fs \in {None, Str("Italic"), Num(700)},
     ta \in {None, Str("Center"), Str("start")},
     co \in {None, Obj("color")}}

ImageFamily ==
  {[Node("image", 10, 20, 40, 40) EXCEPT !.imageUrl = u, !.imageDataUrl = du,
                                         !.width = w, !.cornerRadius = cr, !.name = nm] :
     u \in {None, Str("https://img.test/a.png"), Str(""), Num(5)},
     du \in {None, Str("data:image/png;base64,iVBORw0KGgo="), Str("junk")},
     w \in {Num(40), Num(0), NumStr(40), Num(-5)},
     cr \in {None, Num(4), Num(-1), NumStr(4)},
     nm \in {None, Str("Logo")}}

SizeLeaves ==
  {ValidLeaf(t, w, h) : t \in NodeTypes \cup {"section"}, w \in {1, 0, -1}, h \in {1, 0}}

\* a node at the top level, inside a frame, and inside a frame inside a frame
SizeFamily ==
  SizeLeaves \cup {FrameWith(<<ValidLeaf("rect", 5, 5), n>>) : n \in SizeLeaves}
             \cup {FrameWith(<<FrameWith(<<n>>)>>) : n \in SizeLeaves}
             \cup {[ValidLeaf("rect", 5, 5) EXCEPT !.childrenKind = "array",
                                                   !.children = <<n>>] : n \in SizeLeaves}

FrameFamily ==
  {[Node("frame", 0, 0, 400, 300) EXCEPT !.layoutMode = lm, !.childrenKind = ck,
                                         !.children = kids, !.extra = ex, !.padding = pd] :
     lm \in {None, Str("NONE"), Str("HORIZONTAL"), Str("DIAGONAL")},
     ck \in {"none", "array", "other"},
     kids \in {<<>>, <<[ValidLeaf("rect", 5, 5) EXCEPT !.extra = Str("gradient"),
                                                       !.text = Str("stray")]>>},
     ex \in {None, Str("gradient")},
     pd \in {None, Obj("padding"), Obj("padding-str")}}

NodePool ==
  {ValidLeaf("rect", 5, 5), ValidLeaf("text", 50, 10), ValidLeaf("section", 5, 5),
   Node("image", 10, 20, 40, 40), ValidLeaf("image", 40, 40),
   [ValidLeaf("ellipse", 5, 5) EXCEPT !.x = NumStr(7)],
   [BlankNode EXCEPT !.json = "null"],
   FrameWith(<<ValidLeaf("ellipse", 5, 5), Node("image", 1, 2, 30, 30)>>)}

CanvasVariants ==
  {[SpecOf(<<n>>) EXCEPT !.canvasKind = ck, !.canvas.name = nm,
                         !.canvas.width = w, !.nodesKind = nk] :
     n \in {ValidLeaf("rect", 5, 5), [Node("frame", 0, 0, 400, 300) EXCEPT !.extra = Num(1)]},
     ck \in {"object", "none"}, nm \in {None, Str("Screen"), Num(3)},
     w \in {Num(1000), NumStr(1000), Num(0), None}, nk \in {"array", "none", "other"}}

\* nodes whose x or width is a number, a numeric string, another string, an
\* object or absent, next to a sibling that is kept
CoerceLeaves ==
  {[Node(t, 3, 4, 6, 7) EXCEPT !.x = x, !.width = w] :
     t \in {"rect", "ellipse", "button"},
     x \in {Num(3), NumStr(3), Str("left"), Str(""), None, Obj("point")},
     w \in {Num(6), NumStr(6), Str("wide"), None}}

CoerceFamily ==
  {<<ValidLeaf("rect", 5, 5), n, ValidLeaf("text", 50, 10)>> : n \in CoerceLeaves}
    \cup {<<FrameWith(<<n, ValidLeaf("ellipse", 5, 5)>>)>> : n \in CoerceLeaves}
    \cup {<<[FrameWith(<<ValidLeaf("rect", 5, 5)>>) EXCEPT !.y = y, !.height = h],
            ValidLeaf("ellipse", 5, 5)>> :
             y \in {Num(0), Str("top")}, h \in {Num(300), NumStr(300), None}}

\* parsed JSON that is no object, and documents whose canvas or nodes are null
\* or of another kind
OddDocs ==
  {[BlankSpec EXCEPT !.json = j] : j \in {"null", "number", "string", "array"}}
    \cup {[SpecOf(<<ValidLeaf("rect", 5, 5)>>) EXCEPT !.canvasKind = ck, !.nodesKind = nk,
             !.canvas = IF ck = "object" THEN @ ELSE BlankSpec.canvas,
             !.nodes = IF nk = "array" THEN @ ELSE <<>>] :
             ck \in {"object", "null", "other", "none"},
             nk \in {"array", "null", "other", "none"}}

RawDocs ==
  {SpecOf(<<n>>) : n \in TextFamily \cup ImageFamily \cup SizeFamily \cup FrameFamily}
    \cup {SpecOf(ns) : ns \in SeqsUpTo(NodePool, MaxNodes)}
    \cup {SpecOf(ns) : ns \in CoerceFamily}
    \cup CanvasVariants
    \cup OddDocs

InitNorm ==
  /\ raw \in RawDocs /\ norm = BlankSpec /\ parsed = NoParse /\ again = NoParse
  /\ npc = "received"
  /\ ResolverIdle /\ RenderIdle /\ StreamIdle

\* DesignSpecSchema applied to the document as received
ParseDirect ==
  /\ npc = "received"
  /\ parsed' = DesignSpecSchema(raw)
  /\ npc' = "direct"
  /\ UNCHANGED <<raw, norm, again, resolverVars, renderVars, streamVars>>

\* normalizeSpec(parsed, width, height) with the request's width and height;
\* a raise would leave the request without a normalized document
Normalize ==
  /\ npc = "received"
  /\ IF normalizeSpecThrows(raw)
     THEN norm' = norm /\ npc' = "raised"
     ELSE /\ \E w \in {1000, 0} : norm' = normalizeSpec(raw, w, 800)
          /\ npc' = "normalized"
  /\ UNCHANGED <<raw, parsed, again, resolverVars, renderVars, streamVars>>

\* DesignSpecSchema.parse(normalized)
ParseNormalized ==
  /\ npc = "normalized"
  /\ parsed' = DesignSpecSchema(norm)
  /\ npc' = "checked"
  /\ UNCHANGED <<raw, norm, again, resolverVars, renderVars, streamVars>>

\* the plugin's DesignSpecSchema.parse of a document that was validated before
Reparse ==
  /\ npc \in {"direct", "checked"}
  /\ parsed.ok
  /\ again' = DesignSpecSchema(parsed.out)
  /\ npc' = "reparsed"
  /\ UNCHANGED <<raw, norm, parsed, resolverVars, renderVars, streamVars>>

NextNorm == ParseDirect \/ Normalize \/ ParseNormalized \/ Reparse

SpecNorm == InitNorm /\ [][NextNorm]_vars

RECURSIVE TreeNodes(_)
\* the nodes of a node list, at the top level and at any depth inside frame children
TreeNodes(nodes) ==
  IF nodes = <<>> THEN {}
  ELSE LET h == Head(nodes)
       IN {h} \cup (IF h.type = "frame" /\ h.childrenKind = "array"
                    THEN TreeNodes(h.children) ELSE {})
              \cup TreeNodes(Tail(nodes))

Normalized == npc \in {"normalized", "checked"} \/ (npc = "reparsed" /\ norm # BlankSpec)
OneNode(d) == d.nodesKind = "array" /\ Len(d.nodes) = 1
SameBounds(m, n) ==
  m.x = n.x /\ m.y = n.y /\ m.width = n.width /\ m.height = n.height

\* a text node with a numeric fontWeight (a number or a numeric string) and
\* no string fontStyle, alone in the received document
WeightOnlyText ==
  /\ OneNode(raw)
  /\ raw.nodes[1].type = "text"
  /\ raw.nodes[1].fontWeight.k \in {"num", "numstr"}
  /\ ~IsString(raw.nodes[1].fontStyle)

\* C6 as the spec states it: fontWeight 700 normalizes to "Bold" and
\* fontWeight 450 to "Medium", and the fontWeight key is not emitted.
C6_Original ==
  (Normalized /\ WeightOnlyText) =>
    /\ Len(norm.nodes) = 1
    /\ norm.nodes[1].fontWeight = None
    /\ raw.nodes[1].fontWeight.n = 700 => norm.nodes[1].fontStyle = Str("Bold")
    /\ raw.nodes[1].fontWeight.n = 450 => norm.nodes[1].fontStyle = Str("Medium")

\* C6 (amended): for a text node with a numeric fontWeight and no string
\* fontStyle, normalization sets fontStyle from the weight by thresholds:
\* 700 and above "Bold", 600..699 "Semibold", 500..599 "Medium", below 500
\* "Regular"; so 700 gives "Bold" and 450 gives "Regular".  The fontWeight key
\* is not emitted.
C6_FontWeightLadder ==
  (Normalized /\ WeightOnlyText) =>
    LET w == raw.nodes[1].fontWeight.n
    IN /\ Len(norm.nodes) = 1
       /\ norm.nodes[1].fontWeight = None
       /\ w >= 700 => norm.nodes[1].fontStyle = Str("Bold")
       /\ (w >= 600 /\ w < 700) => norm.nodes[1].fontStyle = Str("Semibold")
       /\ (w >= 500 /\ w < 600) => norm.nodes[1].fontStyle = Str("Medium")
       /\ w < 500 => norm.nodes[1].fontStyle = Str("Regular")

\* fontWeight 450 and a fontStyle that is no string were normalized to "Regular"
C6_Witness ==
  /\ Normalized /\ WeightOnlyText
  /\ raw.nodes[1].fontWeight = Num(450)
  /\ raw.nodes[1].fontStyle = Num(700)
  /\ norm.nodes[1].fontStyle = Str("Regular")

\* an image node that satisfies the image schema's object part and carries
\* neither imageUrl nor imageDataUrl
SourcelessImage(n) ==
  /\ n.type = "image"
  /\ n.imageUrl = None /\ n.imageDataUrl = None
  /\ ImageNodeObject(n)

\* C7: for every image node with neither imageUrl nor imageDataUrl (its other
\* fields as the schema wants them): validating it directly fails; normalizing
\* it yields a rect with the same x, y, width and height; validating the
\* normalized node succeeds.
C7_SourcelessImageBecomesRect ==
  /\ (/\ npc = "direct" /\ raw.canvasKind = "object" /\ raw.nodesKind = "array"
      /\ \E n \in TreeNodes(raw.nodes) : SourcelessImage(n))
       => ~parsed.ok
  /\ (OneNode(raw) /\ SourcelessImage(raw.nodes[1])) =>
       /\ Normalized =>
            /\ Len(norm.nodes) = 1
            /\ norm.nodes[1].type = "rect"
            /\ SameBounds(norm.nodes[1], raw.nodes[1])
       /\ (npc = "checked" /\ norm.canvas.width.n > 0) =>
            /\ parsed.ok
            /\ Len(parsed.out.nodes) = 1
            /\ parsed.out.nodes[1].type = "rect"
            /\ SameBounds(parsed.out.nodes[1], raw.nodes[1])

\* the normalized placeholder of a sourceless image has passed validation
C7_Witness ==
  /\ npc = "checked" /\ parsed.ok
  /\ OneNode(raw) /\ SourcelessImage(raw.nodes[1])
  /\ raw.nodes[1].cornerRadius = Num(4)
  /\ parsed.out.nodes[1].type = "rect"
  /\ parsed.out.nodes[1].width = Num(40)

\* a node of one of the five types whose width or height is a number <= 0
BadSize(n) ==
  /\ n.json = "object" /\ n.type \in NodeTypes
  /\ \/ n.width.k = "num" /\ n.width.n <= 0
     \/ n.height.k = "num" /\ n.height.n <= 0

\* C8: validation rejects every document that contains, at the top level or
\* at any depth inside frame children, a node of one of the five types with
\* width <= 0 or height <= 0; no validated tree contains such a node.
C8_NonPositiveSizeRejected ==
  /\ (npc = "direct" /\ raw.nodesKind = "array"
        /\ \E n \in TreeNodes(raw.nodes) : BadSize(n)) => ~parsed.ok
  /\ (npc = "checked" /\ \E n \in TreeNodes(norm.nodes) : BadSize(n)) => ~parsed.ok
  /\ parsed.ok => \A n \in TreeNodes(parsed.out.nodes) : ~BadSize(n)
  /\ again.ok => \A n \in TreeNodes(again.out.nodes) : ~BadSize(n)

\* a document whose only flaw is an ellipse of height 0, two frames deep, was
\* normalized (which keeps the node) and then rejected
C8_Witness ==
  /\ npc = "checked" /\ ~parsed.ok
  /\ OneNode(norm)
  /\ norm.nodes[1].type = "frame" /\ Len(norm.nodes[1].children) = 1
  /\ norm.nodes[1].children[1].type = "frame"
  /\ Len(norm.nodes[1].children[1].children) = 1
  /\ norm.nodes[1].children[1].children[1].type = "ellipse"
  /\ norm.nodes[1].children[1].children[1].height = Num(0)
  /\ norm.nodes[1].children[1].children[1].width = Num(1)

\* C9: for every document DesignSpecSchema accepts, validating the validated
\* output again succeeds and returns a value equal to the first output,
\* defaults (layoutMode "NONE", children [], canvas name) included.
C9_ValidationIdempotent ==
  npc = "reparsed" => (again.ok /\ again.out = parsed.out)

\* a received document without canvas name, whose frame has neither layoutMode
\* nor children but an undeclared key, was validated twice
C9_Witness ==
  /\ npc = "reparsed" /\ norm = BlankSpec
  /\ raw.canvas.name = None
  /\ raw.nodes # <<>> /\ again.ok /\ again.out.nodes # <<>>
  /\ raw.nodes[1].type = "frame"
  /\ raw.nodes[1].layoutMode = None /\ raw.nodes[1].childrenKind = "none"
  /\ raw.nodes[1].extra # None
  /\ again.out.canvas.name = Str(DefaultCanvasName)
  /\ again.out.nodes[1].layoutMode = Str("NONE")
  /\ again.out.nodes[1].childrenKind = "array"
  /\ again.out.nodes[1].extra = None
  /\ again.out # raw

(***************************************************************************)
(* Spec: the plugin handles a RENDER or RENDER_SPEC message                *)
(* (figma.ui.onmessage) and renderToFigma walks the validated document     *)
(* depth-first.  RenderNode is one call of renderNode up to its await (or, *)
(* for a node that awaits nothing, up to the loop over its children);      *)
(* RenderResume is the rest of the call once the awaited font load or      *)
(* image paint has settled.  The loops that are still running are the      *)
(* entries of stack.                                                       *)
(***************************************************************************)
MaxKids == 2
MaxRuns == 2

RECURSIVE NodeAt(_, _)
\* the node reached from a node list by a path of child indices
NodeAt(nodes, path) ==
  IF Len(path) = 1 THEN nodes[path[1]]
  ELSE NodeAt(nodes[path[1]].children, Tail(path))

\* Mutant: a frame's children are not walked.
KidsAtTopOnly(path) == IF path = <<>> THEN doc.nodes ELSE <<>>

\* the list a renderNode loop iterates: spec.nodes, or node.children ?? []
KidsAt(path) == IF path = <<>> THEN doc.nodes ELSE NodeAt(doc.nodes, path).children

\* node.name || fallback
NameOr(node, fallback) == IF Truthy(node.name) THEN TextOf(node.name) ELSE fallback

\* the data URLs of the model that match /^data:(image\/[^;]+);base64,(.*)$/
DataUrlMatches(s) == s = "data:image/png;base64,iVBORw0KGgo="

\* how the awaited step of a node can end: a font load resolves or rejects;
\* imagePaintFromNode returns a paint, returns null, or throws (fetch rejects,
\* bytes that do not decode)
Outcomes(node) ==
  CASE node.type = "text" -> {"ok", "throw"}
    [] node.type = "image" ->
         IF Truthy(node.imageDataUrl)
         THEN (IF DataUrlMatches(node.imageDataUrl.s) THEN {"paint", "throw"} ELSE {"null"})
         ELSE {"paint", "null", "throw"}
    [] OTHER -> {"ok"}

\* the key of loadFont: `${family}::${style}` with the defaults of renderNode
FontKey(node) ==
  (IF Truthy(node.fontFamily) THEN TextOf(node.fontFamily) ELSE "Inter")
    \o "::" \o (IF Truthy(node.fontStyle) THEN TextOf(node.fontStyle) ELSE "Regular")

\* Mutant: the memo is never consulted.
CacheHasNever(cache, key) == FALSE

\* fontCache.has(key)
CacheHas(cache, key) == \E e \in cache : e.key = key

\* how the promise fontCache.get(key) settles
CacheGet(cache, key) == (CHOOSE e \in cache : e.key = key).result

\* the canvas object renderNode creates for a node and appends to parent
ObjectFor(node, pos, parent, path, outcome) ==
  LET common == [x |-> pos.x, y |-> pos.y, width |-> node.width.n,
                 height |-> node.height.n, parent |-> parent, path |-> path,
                 resized |-> TRUE]
      pill == inferPillRadius(node.width.n, node.height.n, Truthy(node.fill),
                              node.cornerRadius)
  IN CASE node.type = "rect" ->
            common @@ [kind |-> "RECTANGLE", name |-> NameOr(node, "Rect"),
                       cornerRadius |-> pill, font |-> "",
                       fills |-> IF Truthy(node.fill) THEN "solid" ELSE "transparent"]
       [] node.type = "text" ->
            common @@ [kind |-> "TEXT", name |-> NameOr(node, "Text"),
                       cornerRadius |-> None, font |-> FontKey(node),
                       fills |-> IF Truthy(node.fill) THEN "solid" ELSE "default"]
       [] node.type = "ellipse" ->
            common @@ [kind |-> "ELLIPSE", name |-> NameOr(node, "Ellipse"),
                       cornerRadius |-> None, font |-> "",
                       fills |-> IF Truthy(node.fill) THEN "solid" ELSE "transparent"]
       [] node.type = "image" ->
            common @@ [kind |-> "RECTANGLE", name |-> NameOr(node, "Image"),
                       cornerRadius |-> node.cornerRadius, font |-> "",
                       fills |-> IF outcome = "paint" THEN "image" ELSE "gray"]
       [] OTHER ->
            common @@ [kind |-> "FRAME", name |-> NameOr(node, "Frame"),
                       cornerRadius |-> pill, font |-> "",
                       fills |-> IF Truthy(node.fill) THEN "solid" ELSE "none"]

\* the URLs of the model that new URL() accepts as they are
ValidUrls == {"https://img.test/a.png"}

\* Mutant: every string is taken as a URL as it is.
normalizeUrlAsIs(v) == v

\* normalizeUrl of normalizeImageUrls; None stands for its null
normalizeUrl(v) ==
  CASE v.k = "numstr" -> None
    [] v.s \in ValidUrls -> v
    [] v.s = " https://img.test/a.png" -> Str("https://img.test/a.png")
    [] v.s \in {"img.test/a.png", "//img.test/a.png"} -> Str("https://img.test/a.png")
    [] OTHER -> None

\* Math.max(1, Math.round(v))
AtLeastOne(v) == IF v < 1 THEN 1 ELSE v

PlaceholdUrl(w, h) ==
  Str("https://placehold.co/" \o ToString(w) \o "x" \o ToString(h) \o "/png")

PlaceholdDefault == 80

RECURSIVE walk(_), WalkAll(_)
\* for (const n of nodes) walk(n)
WalkAll(nodes) ==
  IF nodes = <<>> THEN [out |-> <<>>, fixed |-> 0, replaced |-> 0]
  ELSE LET h == walk(Head(nodes))
           t == WalkAll(Tail(nodes))
       IN [out |-> <<h.out>> \o t.out, fixed |-> h.fixed + t.fixed,
           replaced |-> h.replaced + t.replaced]

\* walk of normalizeImageUrls: the node as it leaves, and what it adds to the
\* two counters
walk(node) ==
  IF node.json # "object" THEN [out |-> node, fixed |-> 0, replaced |-> 0]
  ELSE LET url == normalizeUrl(node.imageUrl)
           keep == [imageUrl |-> node.imageUrl, fixed |-> 0, replaced |-> 0]
           own ==
             IF node.type # "image" THEN keep
             ELSE IF IsString(node.imageUrl)
             THEN (IF url # None
                   THEN [imageUrl |-> url, fixed |-> IF url # node.imageUrl THEN 1 ELSE 0,
                         replaced |-> 0]
                   ELSE IF IsNumber(node.width) /\ IsNumber(node.height)
                   THEN [imageUrl |-> PlaceholdUrl(AtLeastOne(node.width.n),
                                                   AtLeastOne(node.height.n)),
                         fixed |-> 0, replaced |-> 1]
                   ELSE keep)
             ELSE IF ~Truthy(node.imageDataUrl)
             THEN [imageUrl |->
                     PlaceholdUrl(IF IsNumber(node.width) THEN AtLeastOne(node.width.n)
                                  ELSE PlaceholdDefault,
                                  IF IsNumber(node.height) THEN AtLeastOne(node.height.n)
                                  ELSE PlaceholdDefault),
                   fixed |-> 0, replaced |-> 1]
             ELSE keep
           kids == IF node.childrenKind = "array" THEN WalkAll(node.children)
                   ELSE [out |-> node.children, fixed |-> 0, replaced |-> 0]
       IN [out |-> [node EXCEPT !.imageUrl = own.imageUrl, !.children = kids.out],
           fixed |-> own.fixed + kids.fixed, replaced |-> own.replaced + kids.replaced]

\* normalizeImageUrls(spec): the spec as it leaves (it is changed in place) and
\* the two counters
normalizeImageUrls(spec) ==
  IF spec.nodesKind = "array"
  THEN LET w == WalkAll(spec.nodes)
       IN [spec |-> [spec EXCEPT !.nodes = w.out], fixed |-> w.fixed,
           replaced |-> w.replaced]
  ELSE [spec |-> spec, fixed |-> 0, replaced |-> 0]

\* the screenshot argument the handler builds from the message: RENDER and
\* RENDER_SCREENSHOT always pass an object, RENDER_SPEC only when both fields
\* are strings
ScreenshotArg(m) ==
  IF m.shot = "none" THEN (IF m.type = "RENDER_SPEC" THEN "undefined" ELSE "empty")
  ELSE m.shot

\* Mutant: any screenshot object is taken as it is.
normalizeScreenshotUnchecked(screenshot) ==
  IF screenshot = "undefined" THEN "null" ELSE "ok"

\* normalizeScreenshot: null for no screenshot, a throw for a type other than
\* PNG or JPEG and for base64 data that is empty or shorter than 16
normalizeScreenshot(screenshot) ==
  CASE screenshot = "undefined" -> "null"
    [] screenshot \in {"empty", "gif", "short"} -> "throw"
    [] OTHER -> "ok"

\* Mutant: the parse result is used whether or not the schema accepted it.
ParseLenient(spec) ==
  [ok |-> TRUE, out |-> IF DesignSpecSchema(spec).ok THEN DesignSpecSchema(spec).out
                        ELSE [spec EXCEPT !.nodes = <<>>]]

\* DesignSpecSchema.parse(msg.spec) of the handler
ParseSpec(spec) == DesignSpecSchema(spec)

FrameAt(x, y, kids) ==
  [Node("frame", x, y, 400, 300) EXCEPT !.childrenKind = "array", !.children = kids]

\* children of 50 x 40 at the points the resolver has to tell apart
CoordKids ==
  {Node("rect", 20, 30, 50, 40), Node("rect", 120, 130, 50, 40),
   Node("rect", 420, 330, 50, 40), Node("rect", 620, 430, 50, 40),
   Node("rect", 320, 30, 50, 40),
   Node("ellipse", -80, -70, 50, 40)}

CoordFamily ==
  {<<FrameAt(o[1], o[2], kids)>> :
     o \in {<<0, 0>>, <<100, 100>>, <<0, 100>>}, kids \in SeqsUpTo(CoordKids, MaxKids)}

NestedFamily ==
  {<<FrameAt(100, 100,
       <<[Node("frame", f[1], f[2], 200, 150) EXCEPT
            !.childrenKind = "array",
            !.children = <<Node("rect", c[1], c[2], 50, 40)>>]>>)>> :
     f \in {<<150, 150>>, <<50, 50>>},
     c \in {<<20, 30>>, <<170, 180>>, <<70, 80>>, <<270, 280>>}}

PillFamily ==
  {<<[Node("rect", 10, 10, w, h) EXCEPT !.fill = fl, !.cornerRadius = cr]>> :
     w \in {38, 39, 44, 45, 60}, h \in {24, 25, 28, 29, 40},
     fl \in {None, Obj("color")}, cr \in {None, Num(0), Num(4)}}

MixedFamily ==
  {<<ValidLeaf("text", 100, 20), ValidLeaf("image", 40, 40)>>,
   <<[Node("image", 0, 0, 40, 40) EXCEPT !.imageDataUrl = Str("data:image/")],
     [Node("image", 0, 0, 40, 40) EXCEPT
        !.imageDataUrl = Str("data:image/png;base64,iVBORw0KGgo="),
        !.cornerRadius = Num(6)]>>,
   <<ValidLeaf("rect", 60, 24),
     FrameAt(0, 0, <<[ValidLeaf("text", 100, 20) EXCEPT !.name = Str("Title")],
                     ValidLeaf("ellipse", 10, 10)>>)>>,
   <<[FrameAt(10, 10, <<>>) EXCEPT !.width = Num(60), !.height = Num(24),
                                   !.fill = Obj("color"), !.layoutMode = Str("HORIZONTAL")]>>,
   <<FrameAt(0, 0, <<ValidLeaf("image", 40, 40), ValidLeaf("rect", 5, 5)>>),
     ValidLeaf("ellipse", 10, 10)>>,
   <<>>}

\* text nodes over two families and two styles, the defaults included
FontNodes ==
  {[ValidLeaf("text", 100, 20) EXCEPT !.fontFamily = ff, !.fontStyle = fs] :
     ff \in {None, Str("Roboto")}, fs \in {None, Str("Bold")}}

FontFamily ==
  SeqsUpTo(FontNodes, 2)
    \cup {<<FrameAt(0, 0, <<ValidLeaf("text", 100, 20)>>), ValidLeaf("text", 100, 20)>>}

\* documents the schema rejects, and images that normalizeImageUrls repairs
RejectedFamily ==
  {<<ValidLeaf("rect", 0, 5)>>, <<ValidLeaf("section", 5, 5)>>,
   <<ValidLeaf("rect", 5, 5), FrameAt(0, 0, <<Node("text", 1, 1, 5, 5)>>)>>,
   <<[ValidLeaf("rect", 5, 5) EXCEPT !.x = NumStr(7)]>>,
   <<Node("image", 1, 2, 30, 30)>>,
   <<[Node("image", 1, 2, 30, 30) EXCEPT !.imageUrl = Str("img.test/a.png")]>>,
   <<[Node("image", 1, 2, 30, 30) EXCEPT !.imageUrl = Str("no url")]>>,
   <<[Node("image", 1, 2, 30, 30) EXCEPT !.imageUrl = Str(""), !.width = NumStr(30)]>>,
   <<[Node("image", 1, 2, 30, 30) EXCEPT !.imageDataUrl = Str("junk")]>>}

\* image nodes with every kind of imageUrl, imageDataUrl and width
UrlImages ==
  {[Node("image", 1, 2, 30, 30) EXCEPT !.imageUrl = u, !.imageDataUrl = du, !.width = w] :
     u \in {None, Str("https://img.test/a.png"), Str(" https://img.test/a.png"),
            Str("img.test/a.png"), Str("no url"), Str(""), Num(5)},
     du \in {None, Str("data:image/png;base64,iVBORw0KGgo="), Str("")},
     w \in {Num(30), NumStr(30), Num(0)}}

\* each of them at the top, in a frame, and under a rect that has children
UrlFamily ==
  UNION {{<<n>>, <<FrameAt(0, 0, <<n>>)>>,
          <<[ValidLeaf("rect", 60, 24) EXCEPT !.childrenKind = "array",
                                              !.children = <<n>>]>>} : n \in UrlImages}

\* the messages of the model: every document without a screenshot; a few
\* documents with each kind of screenshot; the documents with text, sent up to
\* MaxRuns times
Messages ==
  {[type |-> "RENDER_SPEC", spec |-> SpecOf(ns), shot |-> "none", sends |-> 1] :
     ns \in CoordFamily \cup NestedFamily \cup PillFamily \cup MixedFamily
              \cup RejectedFamily \cup UrlFamily}
    \cup {[type |-> t, spec |-> SpecOf(ns), shot |-> s, sends |-> 1] :
            t \in {"RENDER", "RENDER_SPEC"},
            s \in {"none", "png", "gif", "short", "garbled"},
            ns \in {<<ValidLeaf("rect", 60, 24)>>, <<ValidLeaf("section", 5, 5)>>}}
    \cup {[type |-> "RENDER_SPEC", spec |-> SpecOf(ns), shot |-> "none", sends |-> k] :
            ns \in FontFamily, k \in 1..MaxRuns}

Init ==
  /\ msg \in Messages /\ doc = BlankSpec /\ stack = <<>> /\ objects = <<>>
  /\ pending = NoPending /\ fontCache = {} /\ loads = <<>> /\ run = 0
  /\ selection = 0 /\ log = <<>> /\ error = "none" /\ pc = "idle"
  /\ urlStats = NoStats
  /\ ResolverIdle /\ PipelineIdle /\ StreamIdle

\* the messages handled so far: each handler starts with one of these lines
Received ==
  Cardinality({i \in DOMAIN log :
                 log[i] \in {"Validating spec...", "Placing screenshot..."}})

\* Mutant: the catch block logs nothing.
RaiseSilent(cause) ==
  /\ pc' = "failed"
  /\ error' = cause
  /\ log' = log

\* the catch block of the handler: uiLog(`Render failed: ...`)
Raise(cause) ==
  /\ pc' = "failed"
  /\ error' = cause
  /\ log' = Append(log, "Render failed")

\* figma.ui.onmessage for RENDER and RENDER_SPEC up to the call of the
\* renderer: normalizeImageUrls, then DesignSpecSchema.parse
OnMessage ==
  /\ pc \in {"idle", "done", "failed"}
  /\ Received < msg.sends
  /\ msg.type \in {"RENDER", "RENDER_SPEC"}
  /\ LET stats == normalizeImageUrls(msg.spec)
         lines == <<"Validating spec...">>
                    \o (IF stats.fixed > 0 \/ stats.replaced > 0
                        THEN <<"imageUrl normalized">> ELSE <<>>)
         spec == ParseSpec(stats.spec)
     IN /\ urlStats' = stats
        /\ IF spec.ok
           THEN /\ doc' = spec.out
                /\ log' = log \o lines \o <<"Rendering into Figma...">>
                /\ pc' = "validated"
                /\ error' = "none"
           ELSE /\ doc' = BlankSpec
                /\ log' = log \o lines \o <<"Render failed">>
                /\ pc' = "failed"
                /\ error' = "schema"
  /\ objects' = <<>> /\ stack' = <<>> /\ pending' = NoPending
  /\ UNCHANGED <<msg, fontCache, loads, run, selection, resolverVars, pipelineVars,
                 streamVars>>

\* renderToFigma up to its loop: the screenshot is checked, then the root
\* frame, sized to the canvas, and the overlay appended to it; objects are
\* numbered by their place in objects
RenderStart ==
  /\ pc = "validated"
  /\ run' = run + 1
  /\ LET screenshot == normalizeScreenshot(ScreenshotArg(msg))
         root == [kind |-> "FRAME", name |-> NameOr(doc.canvas, "Generated"),
                  x |-> 0, y |-> 0, width |-> doc.canvas.width.n,
                  height |-> doc.canvas.height.n, cornerRadius |-> None,
                  fills |-> IF screenshot = "ok" THEN "image" ELSE "none",
                  parent |-> 0, path |-> <<>>, resized |-> TRUE, font |-> ""]
         overlay == [kind |-> "FRAME", name |-> "AI layers",
                     x |-> 0, y |-> 0, width |-> doc.canvas.width.n,
                     height |-> doc.canvas.height.n, cornerRadius |-> None,
                     fills |-> "none", parent |-> 1, path |-> <<>>,
                     resized |-> TRUE, font |-> ""]
     IN CASE screenshot = "throw" ->
               /\ Raise("screenshot")
               /\ UNCHANGED <<objects, stack, fontCache>>
          [] screenshot = "ok" /\ msg.shot = "garbled" ->
               \* base64ToBytes throws after the root was created
               /\ Raise("decode")
               /\ objects' = <<[root EXCEPT !.fills = "default"]>>
               /\ UNCHANGED <<stack, fontCache>>
          [] OTHER ->
               /\ objects' = <<root, overlay>>
               /\ stack' = <<[obj |-> 2, path |-> <<>>, i |-> 1, absX |-> 0, absY |-> 0,
                              width |-> doc.canvas.width.n,
                              height |-> doc.canvas.height.n, mode |-> "relative"]>>
               /\ fontCache' = {}
               /\ pc' = "walk"
               /\ UNCHANGED <<error, log>>
  /\ UNCHANGED <<msg, doc, pending, loads, selection, urlStats, resolverVars,
                 pipelineVars, streamVars>>

\* Mutant: the loop over the children is put behind the loops that are still
\* running, as when the calls for the children are not awaited.
EnterLoopDeferred(loops, entry) == <<entry>> \o loops

\* renderNode enters the loop over node.children and awaits each call
EnterLoop(loops, entry) == Append(loops, entry)

\* one renderNode call up to its await: resolve the position, create the
\* object and size it; a text node asks loadFont for its font and an image
\* node asks for its paint, and both wait; any other node is appended to its
\* parent, and a frame computes its children's coordinate mode and enters the
\* loop over them.  hostOk tells whether the host accepts the resize.
RenderNode ==
  /\ pc = "walk"
  /\ pending = NoPending
  /\ stack # <<>>
  /\ LET top == stack[Len(stack)]
         kids == KidsAt(top.path)
     IN /\ top.i <= Len(kids)
        /\ LET node == kids[top.i]
               pos == chooseLocalPosition(node, top.absX, top.absY, top.width,
                                          top.height, top.mode)
               path == Append(top.path, top.i)
               advanced == [stack EXCEPT ![Len(stack)].i = top.i + 1]
           IN CASE node.type = "text" ->
                     LET key == FontKey(node)
                     IN /\ IF CacheHas(fontCache, key)
                           THEN /\ pending' = [kind |-> "font",
                                               result |-> CacheGet(fontCache, key)]
                                /\ UNCHANGED <<fontCache, loads>>
                           ELSE \E result \in Outcomes(node) :
                                  /\ fontCache' = fontCache \cup
                                                    {[key |-> key, result |-> result]}
                                  /\ loads' = Append(loads, [run |-> run, key |-> key])
                                  /\ pending' = [kind |-> "font", result |-> result]
                        /\ UNCHANGED <<objects, stack, pc, error, log>>
                [] node.type = "image" ->
                     \E hostOk \in BOOLEAN :
                       IF hostOk
                       THEN /\ \E result \in Outcomes(node) :
                                 pending' = [kind |-> "paint", result |-> result]
                            /\ UNCHANGED <<objects, stack, pc, error, log, fontCache, loads>>
                       ELSE /\ Raise("host")
                            /\ UNCHANGED <<objects, stack, pending, fontCache, loads>>
                [] OTHER ->
                     \E hostOk \in BOOLEAN :
                       IF hostOk
                       THEN /\ objects' = Append(objects,
                                                 ObjectFor(node, pos, top.obj, path, "ok"))
                            /\ stack' =
                                 IF node.type = "frame"
                                 THEN EnterLoop(advanced,
                                        [obj |-> Len(objects) + 1, path |-> path, i |-> 1,
                                         absX |-> node.x.n, absY |-> node.y.n,
                                         width |-> node.width.n, height |-> node.height.n,
                                         mode |-> detectCoordinateMode(node.children,
                                                    node.x.n, node.y.n, node.width.n,
                                                    node.height.n)])
                                 ELSE advanced
                            /\ UNCHANGED <<pending, pc, error, log, fontCache, loads>>
                       ELSE /\ Raise("host")
                            /\ UNCHANGED <<objects, stack, pending, fontCache, loads>>
  /\ UNCHANGED <<msg, doc, run, selection, urlStats, resolverVars,
                 pipelineVars, streamVars>>

\* the awaited font load or paint has settled: a rejection leaves renderNode
\* and renderToFigma as a throw; otherwise the object gets its font or fill
\* and is appended to its parent.  A text node's resize sits in a try/catch:
\* resized tells whether the host accepted it.
RenderResume ==
  /\ pc = "walk"
  /\ pending # NoPending
  /\ LET top == stack[Len(stack)]
         node == KidsAt(top.path)[top.i]
         pos == chooseLocalPosition(node, top.absX, top.absY, top.width,
                                    top.height, top.mode)
         path == Append(top.path, top.i)
     IN IF pending.result = "throw"
        THEN /\ Raise(pending.kind)
             /\ UNCHANGED <<objects, stack>>
        ELSE /\ \E resized \in (IF node.type = "text" THEN BOOLEAN ELSE {TRUE}) :
                  objects' = Append(objects,
                                    [ObjectFor(node, pos, top.obj, path, pending.result)
                                       EXCEPT !.resized = resized])
             /\ stack' = [stack EXCEPT ![Len(stack)].i = top.i + 1]
             /\ UNCHANGED <<pc, error, log>>
  /\ pending' = NoPending
  /\ UNCHANGED <<msg, doc, fontCache, loads, run, selection, urlStats, resolverVars,
                 pipelineVars, streamVars>>

\* Mutant: the loop ends one element early.
LoopExhaustedEarly(entry) == entry.i >= Len(KidsAt(entry.path))

\* the for-of loop of entry has no element left
LoopExhausted(entry) == entry.i > Len(KidsAt(entry.path))

\* the loop over a frame's children is exhausted: renderNode returns
RenderReturn ==
  /\ pc = "walk"
  /\ pending = NoPending
  /\ Len(stack) > 1
  /\ LoopExhausted(stack[Len(stack)])
  /\ stack' = SubSeq(stack, 1, Len(stack) - 1)
  /\ UNCHANGED <<msg, doc, objects, pending, fontCache, loads, run, selection, log,
                 error, pc, urlStats, resolverVars, pipelineVars,
                 streamVars>>

\* the loop over spec.nodes is exhausted: the root is appended to the page and
\* selected, renderToFigma returns and the handler logs "Done"
RenderFinish ==
  /\ pc = "walk"
  /\ pending = NoPending
  /\ Len(stack) = 1
  /\ LoopExhausted(stack[1])
  /\ stack' = <<>>
  /\ selection' = run
  /\ log' = Append(log, "Done")
  /\ pc' = "done"
  /\ UNCHANGED <<msg, doc, objects, pending, fontCache, loads, run, error,
                 urlStats, resolverVars, pipelineVars,
                 streamVars>>

Next == OnMessage \/ RenderStart \/ RenderNode \/ RenderResume \/ RenderReturn
          \/ RenderFinish

Spec == Init /\ [][Next]_vars

(***************************************************************************)
(* SpecPlugin: the handler with its third branch, RENDER_SCREENSHOT, which *)
(* calls renderScreenshotOnly.                                             *)
(***************************************************************************)
ScreenshotMessages ==
  {[type |-> "RENDER_SCREENSHOT", spec |-> BlankSpec, shot |-> s, sends |-> k] :
     s \in {"none", "png", "gif", "short", "garbled"}, k \in 1..MaxRuns}

InitPlugin ==
  /\ msg \in Messages \cup ScreenshotMessages
  /\ doc = BlankSpec /\ stack = <<>> /\ objects = <<>>
  /\ pending = NoPending /\ fontCache = {} /\ loads = <<>> /\ run = 0
  /\ selection = 0 /\ log = <<>> /\ error = "none" /\ pc = "idle"
  /\ urlStats = NoStats
  /\ ResolverIdle /\ PipelineIdle /\ StreamIdle

\* the sizes img.getSizeAsync() reports in the model
ImageSizes == {<<1000, 800>>, <<1, 1>>}

\* figma.ui.onmessage for RENDER_SCREENSHOT and renderScreenshotOnly up to
\* its await: the screenshot is checked, the root frame is created 1 x 1, the
\* bytes are decoded and the image's size is asked for
PlaceScreenshot ==
  /\ pc \in {"idle", "done", "failed"}
  /\ Received < msg.sends
  /\ msg.type = "RENDER_SCREENSHOT"
  /\ run' = run + 1
  /\ LET screenshot == normalizeScreenshot(ScreenshotArg(msg))
         root == [kind |-> "FRAME", name |-> "Screenshot", x |-> 0, y |-> 0,
                  width |-> 1, height |-> 1, cornerRadius |-> None,
                  fills |-> "default", parent |-> 0, path |-> <<>>,
                  resized |-> TRUE, font |-> ""]
     IN CASE screenshot \in {"throw", "null"} ->
               /\ log' = log \o <<"Placing screenshot...", "Render failed">>
               /\ pc' = "failed" /\ error' = "screenshot"
               /\ objects' = <<>> /\ pending' = NoPending
          [] screenshot = "ok" /\ msg.shot = "garbled" ->
               \* base64ToBytes throws after the root was created
               /\ log' = log \o <<"Placing screenshot...", "Render failed">>
               /\ pc' = "failed" /\ error' = "decode"
               /\ objects' = <<root>> /\ pending' = NoPending
          [] OTHER ->
               /\ log' = Append(log, "Placing screenshot...")
               /\ pc' = "sizing" /\ error' = "none"
               /\ objects' = <<root>>
               /\ \E result \in {"ok", "throw"} :
                    pending' = [kind |-> "size", result |-> result]
  /\ stack' = <<>>
  /\ UNCHANGED <<msg, doc, fontCache, loads, selection, urlStats, resolverVars,
                 pipelineVars, streamVars>>

\* img.getSizeAsync() has settled: a rejection is caught by the handler;
\* otherwise the root takes the image's size and the image as its fill, is
\* appended to the page and selected, and the handler logs "Done"
ScreenshotSized ==
  /\ pc = "sizing"
  /\ IF pending.result = "throw"
     THEN /\ Raise("size")
          /\ UNCHANGED <<objects, selection>>
     ELSE /\ \E size \in ImageSizes :
               objects' = <<[objects[1] EXCEPT !.width = size[1], !.height = size[2],
                                               !.fills = "image"]>>
          /\ selection' = run
          /\ log' = Append(log, "Done")
          /\ pc' = "done"
          /\ UNCHANGED error
  /\ pending' = NoPending
  /\ UNCHANGED <<msg, doc, stack, fontCache, loads, run, urlStats, resolverVars,
                 pipelineVars, streamVars>>

NextPlugin == Next \/ PlaceScreenshot \/ ScreenshotSized

SpecPlugin == InitPlugin /\ [][NextPlugin]_vars

\* the steps of a handler that has started
Continue ==
  RenderStart \/ RenderNode \/ RenderResume \/ RenderReturn \/ RenderFinish
    \/ ScreenshotSized

\* every await of a handler that has started settles and its continuation runs
FairSpecPlugin == SpecPlugin /\ WF_vars(Continue)

Front(path) == SubSeq(path, 1, Len(path) - 1)

\* the objects made for a child of a frame node (the root and the overlay are
\* objects 1 and 2; a top-level node has a path of length 1)
ChildObjects == {k \in 3..Len(objects) : Len(objects[k].path) >= 2}
NodeOf(k) == NodeAt(doc.nodes, objects[k].path)
FrameOf(k) == NodeAt(doc.nodes, Front(objects[k].path))
PosOf(k) == [x |-> objects[k].x, y |-> objects[k].y]

RelPoint(c) == [x |-> c.x.n, y |-> c.y.n]
AbsPoint(c, f) == [x |-> c.x.n - f.x.n, y |-> c.y.n - f.y.n]
RelFit(c, f) == fitScore(c.x.n, c.y.n, c.width.n, c.height.n, f.width.n, f.height.n)
AbsFit(c, f) ==
  fitScore(c.x.n - f.x.n, c.y.n - f.y.n, c.width.n, c.height.n, f.width.n, f.height.n)
RelSum(f) == SumRel(f.children, f.width.n, f.height.n)
AbsSum(f) == SumAbs(f.children, f.x.n, f.y.n, f.width.n, f.height.n)

\* C1 as the spec states it: when a child's two fit scores tie and the parent
\* frame's two aggregate sums tie as well, the child is placed by the absolute
\* interpretation if the parent frame's origin is non-zero, else by the
\* relative one.
C1_Original ==
  \A k \in ChildObjects :
    LET c == NodeOf(k)
        f == FrameOf(k)
    IN (RelFit(c, f) = AbsFit(c, f) /\ RelSum(f) = AbsSum(f)) =>
         PosOf(k) = IF f.x.n # 0 \/ f.y.n # 0 THEN AbsPoint(c, f) ELSE RelPoint(c)

\* C4: when a child's own two fit scores tie and the sums of the relative and
\* of the absolute fit scores over all direct children of its parent frame
\* differ, the child is placed by the interpretation whose sum is higher; the
\* mode is fixed from the sums over all direct children when the loop over the
\* children is entered, before any child of the frame has an object.
C4_AggregateBreaksTie ==
  /\ \A k \in ChildObjects :
       LET c == NodeOf(k)
           f == FrameOf(k)
       IN RelFit(c, f) = AbsFit(c, f) =>
            /\ AbsSum(f) > RelSum(f) => PosOf(k) = AbsPoint(c, f)
            /\ RelSum(f) > AbsSum(f) => PosOf(k) = RelPoint(c)
  /\ \A e \in 2..Len(stack) :
       LET f == NodeAt(doc.nodes, stack[e].path)
       IN /\ AbsSum(f) > RelSum(f) => stack[e].mode = "absolute"
          /\ RelSum(f) > AbsSum(f) => stack[e].mode = "relative"
          /\ stack[e].i = 1 => \A k \in 1..Len(objects) : objects[k].parent # stack[e].obj

\* a first child whose scores tie at 4 was placed by the absolute reading
\* because its later sibling makes the absolute sum the higher one
C4_Witness ==
  \E k \in ChildObjects :
    LET c == NodeOf(k)
        f == FrameOf(k)
    IN /\ objects[k].path[Len(objects[k].path)] = 1
       /\ RelFit(c, f) = 4 /\ AbsFit(c, f) = 4
       /\ AbsSum(f) > RelSum(f)
       /\ PosOf(k) = AbsPoint(c, f)
       /\ PosOf(k) # RelPoint(c)

\* the child lies fully inside the frame when its (x, y) is read as relative
FullyInside(c, f) ==
  /\ c.x.n >= 0 /\ c.y.n >= 0
  /\ c.x.n + c.width.n <= f.width.n
  /\ c.y.n + c.height.n <= f.height.n

\* the same children given in canvas-absolute coordinates: the relative
\* coordinates plus the frame's origin
Shifted(kids, f) ==
  [j \in 1..Len(kids) |-> [kids[j] EXCEPT !.x = Num(kids[j].x.n + f.x.n),
                                          !.y = Num(kids[j].y.n + f.y.n)]]

\* the local position the renderer assigns to child j of frame f when the
\* frame's children are kids
PlacedAt(kids, j, f) ==
  chooseLocalPosition(kids[j], f.x.n, f.y.n, f.width.n, f.height.n,
                      detectCoordinateMode(kids, f.x.n, f.y.n, f.width.n, f.height.n))

Unambiguous(c, f, j) ==
  LET twins == Shifted(f.children, f)
  IN /\ AbsFit(c, f) < 4 \/ AbsSum(f) <= RelSum(f)
     /\ \/ RelFit(twins[j], f) < 4
        \/ SumAbs(twins, f.x.n, f.y.n, f.width.n, f.height.n)
             > SumRel(twins, f.width.n, f.height.n)

RectObjects == {k \in 3..Len(objects) : NodeOf(k).type = "rect"}
PillShaped(n) == n.height.n <= 28 /\ 10 * n.width.n >= 16 * n.height.n

\* C10 as the spec states it: a rect with a fill and no explicit corner radius
\* gets the radius height/2 exactly when height <= 28 and width >= 1.6 * height,
\* and none otherwise; a rect without a fill never gets an inferred radius.
C10_Original ==
  \A k \in RectObjects :
    LET n == NodeOf(k)
    IN n.cornerRadius = None =>
         IF n.fill # None /\ PillShaped(n)
         THEN objects[k].cornerRadius.k = "num" /\ 2 * objects[k].cornerRadius.n = n.height.n
         ELSE objects[k].cornerRadius = None

\* C10 (amended): a rect with a fill and no explicit corner radius gets the
\* radius floor(height/2) exactly when height <= 28 and width >= 1.6 * height
\* (60 x 24 gives 12, 60 x 25 gives 12 as well), and none otherwise (height 40
\* gives none); a rect without a fill never gets an inferred radius.
C10_PillRadiusFloored ==
  \A k \in RectObjects :
    LET n == NodeOf(k)
    IN n.cornerRadius = None =>
         IF n.fill # None /\ PillShaped(n)
         THEN objects[k].cornerRadius = Num(n.height.n \div 2)
         ELSE objects[k].cornerRadius = None

\* a filled 60 x 25 rect without corner radius was given the radius 12
C10_Witness ==
  \E k \in RectObjects :
    /\ NodeOf(k).fill # None /\ NodeOf(k).cornerRadius = None
    /\ NodeOf(k).width.n = 60 /\ NodeOf(k).height.n = 25
    /\ objects[k].cornerRadius = Num(12)

RECURSIVE PreorderFrom(_, _, _)
\* the paths of the nodes of a node list from element i on, in depth-first
\* document order: a frame, then its children, then its next sibling
PreorderFrom(nodes, prefix, i) ==
  IF i > Len(nodes) THEN <<>>
  ELSE <<Append(prefix, i)>>
         \o (IF nodes[i].type = "frame"
             THEN PreorderFrom(nodes[i].children, Append(prefix, i), 1) ELSE <<>>)
         \o PreorderFrom(nodes, prefix, i + 1)

DocumentOrder == PreorderFrom(doc.nodes, <<>>, 1)

\* the objects made for the nodes of the document (1 is the root, 2 the overlay)
NodeObjects == 3..Len(objects)

\* C11: at every moment of a render the objects attached so far are, in the
\* order of their attachment, the first nodes of the validated tree in
\* depth-first document order (a frame before its children, a sibling before
\* the next), however the awaited font loads and image paints settle; no node
\* is attached before a node that precedes it.
C11_AttachInDocumentOrder ==
  /\ Len(objects) - 2 <= Len(DocumentOrder)
  /\ \A k \in NodeObjects : objects[k].path = DocumentOrder[k - 2]

\* a text inside a frame waited for its font; it was attached after its frame
\* and before the frame's next sibling, which is a text as well
C11_Witness ==
  /\ pc = "done"
  /\ Len(objects) = 5
  /\ objects[3].kind = "FRAME" /\ objects[3].path = <<1>>
  /\ objects[4].kind = "TEXT" /\ objects[4].path = <<1, 1>>
  /\ objects[5].kind = "TEXT" /\ objects[5].path = <<2>>

\* the object made for the node at the path
ObjectAt(path) == CHOOSE k \in NodeObjects : objects[k].path = path

KindOf(type) ==
  CASE type = "rect" -> "RECTANGLE"
    [] type = "image" -> "RECTANGLE"
    [] type = "text" -> "TEXT"
    [] type = "ellipse" -> "ELLIPSE"
    [] OTHER -> "FRAME"

\* C12: when a render has completed there is, besides the root and the
\* overlay, exactly one object per node of the validated tree, of the node's
\* kind, attached to the object of the node's parent (a top-level node to the
\* overlay).
C12_OneObjectPerNode ==
  pc = "done" =>
    /\ Len(objects) = 2 + Len(DocumentOrder)
    /\ objects[1].parent = 0 /\ objects[2].parent = 1
    /\ \A i \in 1..Len(DocumentOrder) :
         LET p == DocumentOrder[i]
         IN /\ Cardinality({k \in NodeObjects : objects[k].path = p}) = 1
            /\ objects[ObjectAt(p)].kind = KindOf(NodeAt(doc.nodes, p).type)
            /\ objects[ObjectAt(p)].parent = IF Len(p) = 1 THEN 2 ELSE ObjectAt(Front(p))

\* a rect and a frame with two children at the top level: 4 node objects
C12_Witness ==
  /\ pc = "done"
  /\ Len(doc.nodes) = 2
  /\ doc.nodes[1].type = "rect" /\ doc.nodes[2].type = "frame"
  /\ Len(doc.nodes[2].children) = 2
  /\ Len(objects) = 2 + 4
  /\ objects[5].parent = 4 /\ objects[6].parent = 4 /\ objects[4].parent = 2

\* C13 as the spec states it: a font load that fails does not abort the
\* render (the text node degrades to a fallback, the nodes after it are
\* still attached and the root is selected).
C13_Original == ~(pc = "failed" /\ error = "font")

\* C14 as the spec states it: a failure to resolve an image node's paint (the
\* fetch rejects, the status is not OK, the bytes do not decode) never aborts
\* the render; the node gets the gray fill.
C14_Original == ~(pc = "failed" /\ error = "paint")

\* C15 as the spec states it: a host canvas call that throws while a node is
\* instantiated (a rejected resize on a rect, ellipse, image, frame or text)
\* is ignored at that call and the render completes.
C15_Original == ~(pc = "failed" /\ error = "host")

\* the message's spec as DesignSpecSchema.parse sees it
SpecAtParse == normalizeImageUrls(msg.spec).spec

\* C16: no canvas object exists and renderToFigma has not been invoked unless
\* DesignSpecSchema accepted the message's spec; when it rejects the spec the
\* handler ends with the "Render failed" log line.
C16_NoObjectBeforeValidation ==
  /\ (objects # <<>> \/ run > 0 \/ pc \in {"validated", "walk", "done"})
       => DesignSpecSchema(SpecAtParse).ok
  /\ (Received > 0 /\ ~DesignSpecSchema(SpecAtParse).ok) =>
       /\ pc = "failed" /\ error = "schema"
       /\ log[Len(log)] = "Render failed"
       /\ objects = <<>> /\ run = 0 /\ selection = 0

\* a spec with a rect of width 0 was rejected: two log lines, no object
C16_Witness ==
  /\ msg.spec.nodes # <<>> /\ msg.spec.nodes[1].type = "rect"
  /\ msg.spec.nodes[1].width = Num(0)
  /\ log = <<"Validating spec...", "Render failed">>
  /\ objects = <<>> /\ run = 0

\* the text objects of this invocation, attached or waiting for their font
TextKeysInUse ==
  {objects[k].font : k \in {j \in NodeObjects : objects[j].kind = "TEXT"}}
    \cup (IF pending.kind = "font"
          THEN {FontKey(KidsAt(stack[Len(stack)].path)[stack[Len(stack)].i])} ELSE {})

\* C17: no invocation requests the host font load twice for one family+style
\* key, and every invocation requests it once for each key its text nodes
\* use: the memo of an earlier invocation is not used.
C17_FontLoadedOncePerRender ==
  /\ \A i, j \in DOMAIN loads : loads[i] = loads[j] => i = j
  /\ \A key \in TextKeysInUse :
       Cardinality({i \in DOMAIN loads : loads[i] = [run |-> run, key |-> key]}) = 1
  /\ \A i \in DOMAIN loads : loads[i].run \in 1..run

\* the second render of two texts in Inter Regular: one request per render
C17_Witness ==
  /\ run = 2 /\ pc = "done"
  /\ Len(objects) = 4
  /\ objects[3].font = "Inter::Regular" /\ objects[4].font = "Inter::Regular"
  /\ loads = <<[run |-> 1, key |-> "Inter::Regular"], [run |-> 2, key |-> "Inter::Regular"]>>

\* C18: the root of an invocation is selected only by a step taken when every
\* node of the spec has its object attached and no font load or image paint
\* is awaited; the root of an invocation whose walk raised is not selected.
C18_SelectAfterWalk ==
  /\ [][selection' # selection =>
          /\ selection' = run
          /\ pending = NoPending
          /\ Len(objects) = 2 + Len(DocumentOrder)
          /\ \A k \in NodeObjects : objects[k].path = DocumentOrder[k - 2]]_vars
  /\ [](selection \in 0..run)
  /\ []((pc = "failed" /\ error # "schema") => selection # run)

\* a render with an image inside a frame, which waited for its paint, ended
\* with its root selected
C18_Witness ==
  /\ pc = "done" /\ selection = run /\ run = 1
  /\ Len(objects) = 6
  /\ objects[4].fills = "image" /\ objects[4].parent = 3

(***************************************************************************)
(* SpecNorm: normalizeSpec on any parsed JSON, and the nodes it keeps      *)
(***************************************************************************)
\* the node list normalizeSpec maps: input.nodes when it is an array
NodesOf(d) == IF d.json = "object" /\ d.nodesKind = "array" THEN d.nodes ELSE <<>>

\* the node's type is one of the five and each of x, y, width and height is a
\* number or a numeric string
Survives(n) ==
  /\ n.type \in {"rect", "text", "frame", "ellipse", "image"}
  /\ \A f \in {"x", "y", "width", "height"} : n[f].k \in {"num", "numstr"}

\* C19: normalizeSpec raises for no parsed JSON input (null, a value that is
\* no object, a canvas or a nodes field that is absent, null or of another
\* kind, nodes that are all malformed); it returns a canvas with a name and a
\* list of nodes of the five types, and the list is empty when the input has
\* no node list or none of its nodes can be kept.
C19_NormalizeNeverRaises ==
  /\ npc # "raised"
  /\ Normalized =>
       /\ norm.json = "object" /\ norm.canvasKind = "object" /\ norm.nodesKind = "array"
       /\ IsString(norm.canvas.name)
       /\ IsNumber(norm.canvas.width) /\ IsNumber(norm.canvas.height)
       /\ \A i \in DOMAIN norm.nodes :
            norm.nodes[i].json = "object" /\ norm.nodes[i].type \in NodeTypes
       /\ (\A i \in DOMAIN NodesOf(raw) : ~Survives(NodesOf(raw)[i])) => norm.nodes = <<>>

\* null was normalized to the default canvas and an empty node list
C19_Witness ==
  /\ raw.json = "null"
  /\ npc = "normalized"
  /\ norm.canvas.name = Str(DefaultCanvasName)
  /\ norm.canvas.height = Num(800)
  /\ norm.nodes = <<>>

RECURSIVE EmittedFrom(_, _)
\* output is what is left of input when the nodes that do not survive are
\* taken out, at this level and inside every frame that is kept: the kept
\* nodes in their order, each with its coerced geometry and its type (an image
\* may come out as a rect)
EmittedFrom(input, output) ==
  LET kept == SelectSeq(input, Survives)
  IN /\ Len(output) = Len(kept)
     /\ \A i \in DOMAIN kept :
          /\ output[i].x = Num(kept[i].x.n) /\ output[i].y = Num(kept[i].y.n)
          /\ output[i].width = Num(kept[i].width.n)
          /\ output[i].height = Num(kept[i].height.n)
          /\ \/ output[i].type = kept[i].type
             \/ kept[i].type = "image" /\ output[i].type = "rect"
          /\ (kept[i].type = "frame" /\ kept[i].childrenKind = "array") =>
               EmittedFrom(kept[i].children, output[i].children)

\* C20: a node is in the list normalization emits for its parent (or for the
\* top level) if and only if its type is one of rect, text, frame, ellipse,
\* image and each of x, y, width and height is a number or a numeric string;
\* the other nodes are absent and their siblings are kept, in order.
C20_SurvivesIffTypedAndSized == Normalized => EmittedFrom(NodesOf(raw), norm.nodes)

\* of three siblings the middle one, whose x is the string "left", was dropped
C20_Witness ==
  /\ npc = "normalized"
  /\ Len(NodesOf(raw)) = 3
  /\ raw.nodes[2].type = "rect" /\ raw.nodes[2].x = Str("left")
  /\ raw.nodes[2].width = NumStr(6)
  /\ Len(norm.nodes) = 2
  /\ norm.nodes[1].type = "rect" /\ norm.nodes[2].type = "text"

\* C21: every key a normalized node carries, at any depth, is a key the
\* schema of the node's emitted type declares; every other key of the input,
\* the aliases fontWeight, color and textAlign among them, is absent.
C21_OnlyCanonicalKeys ==
  Normalized =>
    \A n \in TreeNodes(norm.nodes) :
      \A f \in DOMAIN n \ KeysOf(n.type) : n[f] = BlankNode[f]

\* a text with fontWeight, color and textAlign came out with fontStyle, fill
\* and alignHorizontal and without the three aliases
C21_Witness ==
  /\ Normalized /\ OneNode(raw) /\ Len(norm.nodes) = 1
  /\ raw.nodes[1].fontWeight = Num(600) /\ raw.nodes[1].fontStyle = None
  /\ raw.nodes[1].color = Obj("color") /\ raw.nodes[1].textAlign = Str("Center")
  /\ norm.nodes[1].fontStyle = Str("Semibold")
  /\ norm.nodes[1].fill = Obj("color")
  /\ norm.nodes[1].alignHorizontal = Str("CENTER")
  /\ norm.nodes[1].fontWeight = None /\ norm.nodes[1].color = None
  /\ norm.nodes[1].textAlign = None

\* the node is no image without imageUrl and imageDataUrl
HasSourceOrNoImage(n) == ~SourcelessImage(n)

\* C23 as the README states it: validating a spec with an image node that has
\* neither imageUrl nor imageDataUrl yields the spec without that node and
\* with its other nodes.
C23_Original ==
  LET others == [raw EXCEPT !.nodes = SelectSeq(raw.nodes, HasSourceOrNoImage)]
  IN (/\ npc = "direct" /\ raw.json = "object" /\ raw.nodesKind = "array"
      /\ \E i \in DOMAIN raw.nodes : SourcelessImage(raw.nodes[i])
      /\ DesignSpecSchema(others).ok)
       => parsed = DesignSpecSchema(others)

\* the sources of an image node as the schema wants them: a non-empty string
\* imageUrl, an imageDataUrl that starts with "data:image/"
HasUrl(n) == IsString(n.imageUrl) /\ Truthy(n.imageUrl)
HasData(n) == n.imageDataUrl.k = "str" /\ n.imageDataUrl.s \in DataImageStrings

\* C24 as the spec states it: an image node the validator accepts carries
\* exactly one source, an imageDataUrl or an imageUrl, never both.
C24_Original ==
  (npc = "direct" /\ parsed.ok) =>
    \A n \in TreeNodes(parsed.out.nodes) :
      n.type = "image" => (n.imageUrl = None) # (n.imageDataUrl = None)

\* C24 (amended): an image node the validator accepts carries at least one
\* source, a non-empty imageUrl or an imageDataUrl in embedded-data form, and
\* each source it carries has that form; a spec with an image node that has
\* neither is rejected; an image node that carries both is accepted.
C24_AtLeastOneSource ==
  npc = "direct" =>
    /\ parsed.ok =>
         \A n \in TreeNodes(parsed.out.nodes) :
           n.type = "image" =>
             /\ HasUrl(n) \/ HasData(n)
             /\ n.imageUrl = None \/ HasUrl(n)
             /\ n.imageDataUrl = None \/ HasData(n)
    /\ (\E n \in TreeNodes(NodesOf(raw)) : n.type = "image" /\ ~HasUrl(n) /\ ~HasData(n))
         => ~parsed.ok
    /\ (/\ OneNode(raw) /\ raw.json = "object" /\ raw.nodes[1].type = "image"
        /\ ImageNodeObject(raw.nodes[1])
        /\ HasUrl(raw.nodes[1]) /\ HasData(raw.nodes[1])
        /\ DesignSpecSchema([raw EXCEPT !.nodes = <<>>]).ok)
         => parsed.ok

\* an image node with an imageUrl and an imageDataUrl was accepted
C24_Witness ==
  /\ npc = "direct" /\ parsed.ok
  /\ Len(parsed.out.nodes) = 1
  /\ parsed.out.nodes[1].type = "image"
  /\ parsed.out.nodes[1].imageUrl = Str("https://img.test/a.png")
  /\ parsed.out.nodes[1].imageDataUrl = Str("data:image/png;base64,iVBORw0KGgo=")

RECURSIVE KidsKept(_, _)
\* output carries children on frames only: a kept frame whose input children
\* are an array has, in order, one child per surviving input child, each of
\* the input child's type (an image may come out as a rect) and geometry, and
\* so on below; every other kept node has no children key
KidsKept(input, output) ==
  LET kept == SelectSeq(input, Survives)
  IN /\ Len(output) = Len(kept)
     /\ \A i \in DOMAIN kept :
          IF kept[i].type = "frame" /\ kept[i].childrenKind = "array"
          THEN /\ output[i].type = "frame"
               /\ output[i].childrenKind = "array"
               /\ LET kids == SelectSeq(kept[i].children, Survives)
                  IN /\ Len(output[i].children) = Len(kids)
                     /\ \A j \in DOMAIN kids :
                          /\ output[i].children[j].type \in
                               {kids[j].type} \cup
                                 (IF kids[j].type = "image" THEN {"rect"} ELSE {})
                          /\ output[i].children[j].width = Num(kids[j].width.n)
                          /\ output[i].children[j].height = Num(kids[j].height.n)
               /\ KidsKept(kept[i].children, output[i].children)
          ELSE output[i].childrenKind = "none" /\ output[i].children = <<>>

\* C25: normalizeNode emits children on frame nodes only: a frame's emitted
\* children are its surviving input children, normalized, in their original
\* order; children under a rect, text, ellipse or image node are discarded.
C25_ChildrenOnlyOnFrames == Normalized => KidsKept(NodesOf(raw), norm.nodes)

\* a rect that came with a child was emitted without children
C25_Witness ==
  /\ Normalized /\ OneNode(raw) /\ Len(norm.nodes) = 1
  /\ raw.nodes[1].type = "rect" /\ raw.nodes[1].childrenKind = "array"
  /\ Len(raw.nodes[1].children) = 1 /\ Survives(raw.nodes[1].children[1])
  /\ norm.nodes[1].type = "rect"
  /\ norm.nodes[1].childrenKind = "none" /\ norm.nodes[1].children = <<>>

\* C29 as the spec states it: every node normalization emits with type image
\* carries a source the validator accepts as present (a non-empty imageUrl or
\* an imageDataUrl in embedded-data form); an image without one is emitted as
\* a rect placeholder.
C29_Original ==
  Normalized =>
    \A n \in TreeNodes(norm.nodes) : n.type = "image" => HasUrl(n) \/ HasData(n)

RECURSIVE CanvasX(_), CanvasY(_)
\* where an object's origin lies on the canvas of the root: its local offset
\* added to those of the frames around it
CanvasX(k) == IF k <= 2 THEN 0 ELSE objects[k].x + CanvasX(objects[k].parent)
CanvasY(k) == IF k <= 2 THEN 0 ELSE objects[k].y + CanvasY(objects[k].parent)

\* C26 as the spec states it: the parent origin renderNode uses for the
\* absolute reading of a frame's children is the frame's origin on the canvas,
\* the sum of the local offsets resolved for the frame and the frames around
\* it.
C26_Original ==
  \A e \in DOMAIN stack :
    /\ stack[e].absX = CanvasX(stack[e].obj)
    /\ stack[e].absY = CanvasY(stack[e].obj)

RECURSIVE CountImages(_)
\* the image nodes walk visits in a node list
CountImages(nodes) ==
  IF nodes = <<>> THEN 0
  ELSE (IF Head(nodes).type = "image" THEN 1 ELSE 0)
         + (IF Head(nodes).childrenKind = "array" THEN CountImages(Head(nodes).children)
            ELSE 0)
         + CountImages(Tail(nodes))

RECURSIVE UrlsRepaired(_, _)
\* before and after differ in imageUrl of image nodes only, and every image
\* node of numeric width and height has a source afterwards
UrlsRepaired(before, after) ==
  /\ Len(after) = Len(before)
  /\ \A i \in DOMAIN before :
       LET b == before[i]
           a == after[i]
       IN /\ [a EXCEPT !.imageUrl = None, !.children = <<>>]
               = [b EXCEPT !.imageUrl = None, !.children = <<>>]
          /\ b.type # "image" => a.imageUrl = b.imageUrl
          /\ (b.type = "image" /\ IsNumber(b.width) /\ IsNumber(b.height))
               => \/ IsString(a.imageUrl) /\ Truthy(a.imageUrl)
                  \/ a.imageDataUrl # None
          /\ IF b.childrenKind = "array" THEN UrlsRepaired(b.children, a.children)
             ELSE a.children = b.children

\* C30: once normalizeImageUrls has run on the received spec, every image node
\* at any depth with numeric width and height carries a non-empty imageUrl or
\* an imageDataUrl; type, x, y, width, height and every non-image node are as
\* received; fixed + replaced is at most the number of image nodes.
C30_ImageUrlsRepaired ==
  (pc # "idle" /\ msg.type \in {"RENDER", "RENDER_SPEC"}) =>
    /\ UrlsRepaired(msg.spec.nodes, urlStats.spec.nodes)
    /\ [urlStats.spec EXCEPT !.nodes = <<>>] = [msg.spec EXCEPT !.nodes = <<>>]
    /\ urlStats.fixed + urlStats.replaced <= CountImages(msg.spec.nodes)

\* an image in a frame came with an imageUrl that is no URL and left with the
\* placeholder of its size
C30_Witness ==
  /\ pc # "idle" /\ Len(msg.spec.nodes) = 1
  /\ msg.spec.nodes[1].type = "frame" /\ Len(msg.spec.nodes[1].children) = 1
  /\ msg.spec.nodes[1].children[1].type = "image"
  /\ msg.spec.nodes[1].children[1].imageUrl = Str("no url")
  /\ msg.spec.nodes[1].children[1].imageDataUrl = None
  /\ msg.spec.nodes[1].children[1].width = Num(30)
  /\ urlStats.spec.nodes[1].children[1].imageUrl = PlaceholdUrl(30, 30)
  /\ urlStats.replaced = 1 /\ urlStats.fixed = 0

\* a screenshot normalizeScreenshot refuses: a type other than PNG or JPEG
\* (none at all when the handler passes the object without the fields), or
\* base64 data shorter than 16
BadScreenshot(m) ==
  \/ m.shot \in {"gif", "short"}
  \/ m.shot = "none" /\ m.type # "RENDER_SPEC"

\* C22: renderToFigma and renderScreenshotOnly, given a screenshot that is not
\* PNG or JPEG or whose data is empty or shorter than 16, raise before any
\* canvas object is created; renderToFigma given no screenshot raises nothing
\* on that account and leaves the root without a background.
C22_ScreenshotCheckedFirst ==
  /\ BadScreenshot(msg) =>
       /\ pc \notin {"walk", "sizing", "done"}
       /\ objects = <<>>
       /\ (pc = "failed" /\ error # "schema") => error = "screenshot"
  /\ error = "screenshot" => pc = "failed" /\ objects = <<>> /\ BadScreenshot(msg)
  /\ (msg.type = "RENDER_SPEC" /\ msg.shot = "none") =>
       /\ error \notin {"screenshot", "decode"}
       /\ objects # <<>> => objects[1].fills = "none"

\* renderScreenshotOnly refused a screenshot with too little data and created
\* nothing
C22_Witness ==
  /\ msg.type = "RENDER_SCREENSHOT" /\ msg.shot = "short"
  /\ pc = "failed" /\ error = "screenshot" /\ run = 1
  /\ objects = <<>>

TerminalLines == Cardinality({i \in DOMAIN log : log[i] \in {"Done", "Render failed"}})
InProgress == pc \in {"validated", "walk", "sizing"}

\* C28: handling one RENDER, RENDER_SPEC or RENDER_SCREENSHOT message emits
\* exactly one terminal log line: none while the handler runs, one once it is
\* through, "Done" if nothing raised and "Render failed" if a step raised; and
\* a handler that has started gets there.
C28_OneTerminalLine ==
  /\ [](/\ InProgress => TerminalLines = Received - 1
        /\ pc \in {"done", "failed"} =>
             /\ TerminalLines = Received
             /\ log[Len(log)] = (IF pc = "done" THEN "Done" ELSE "Render failed")
        /\ pc = "idle" => log = <<>>
        /\ (pc = "failed") <=> (error # "none"))
  /\ [](InProgress => <>(pc \in {"done", "failed"}))

\* a screenshot was placed, and placed again with a size request that failed:
\* one "Done" and one "Render failed"
C28_Witness ==
  /\ msg.type = "RENDER_SCREENSHOT" /\ pc = "failed" /\ error = "size"
  /\ log = <<"Placing screenshot...", "Done", "Placing screenshot...", "Render failed">>

(***************************************************************************)
(* SpecStream: the streaming branch of POST /api/generate.  The upstream   *)
(* body is NDJSON; reader.read() returns it in chunks cut anywhere.  A     *)
(* character of the body is a token: a JSON line is two tokens (so that a  *)
(* chunk can end inside it), and there are the newline, a space and a      *)
(* token of text that is no JSON.  A response fragment is "{" or "}", so   *)
(* the assembled text is a sequence of those.                              *)
(***************************************************************************)
MaxLines == 2
MaxChunk == 3

Token(kind, text, half) == [kind |-> kind, text |-> text, half |-> half]
Newline == Token("nl", "", 0)
Space == Token("space", "", 0)
Junk == Token("junk", "", 0)

\* the line JSON.stringify({response: text}) or {error: text}, in two halves
JsonLine(kind, text) == <<Token(kind, text, 1), Token(kind, text, 2)>>

WireLines ==
  {JsonLine("response", "{"), JsonLine("response", "}"), JsonLine("response", ""),
   JsonLine("error", "boom"), <<Junk>>, <<Space>>, <<>>}

RECURSIVE JoinLines(_, _)
\* the lines, each followed by a newline; the last one only if terminated
JoinLines(lines, terminated) ==
  IF lines = <<>> THEN <<>>
  ELSE IF Len(lines) = 1
  THEN Head(lines) \o (IF terminated THEN <<Newline>> ELSE <<>>)
  ELSE Head(lines) \o <<Newline>> \o JoinLines(Tail(lines), terminated)

Upstreams ==
  {JoinLines(ls, t) : ls \in SeqsUpTo(WireLines, MaxLines), t \in BOOLEAN}

RECURSIVE Trim(_)
\* String.prototype.trim
Trim(text) ==
  IF text = <<>> THEN <<>>
  ELSE IF Head(text) \in {Space, Newline} THEN Trim(Tail(text))
  ELSE IF text[Len(text)] \in {Space, Newline} THEN Trim(SubSeq(text, 1, Len(text) - 1))
  ELSE text

\* buffer.indexOf("\n"), counted from 1; 0 when there is none
IndexOfNewline(text) ==
  IF \E i \in DOMAIN text : text[i] = Newline
  THEN CHOOSE i \in DOMAIN text :
         text[i] = Newline /\ \A j \in 1..(i - 1) : text[j] # Newline
  ELSE 0

\* JSON.parse(line): ok is FALSE where it throws
ParseLine(line) ==
  IF /\ Len(line) = 2 /\ line[1].half = 1 /\ line[2] = [line[1] EXCEPT !.half = 2]
  THEN [ok |-> TRUE, kind |-> line[1].kind, text |-> line[1].text]
  ELSE [ok |-> FALSE, kind |-> "", text |-> ""]

RECURSIVE Drain(_, _, _)
\* the inner while loop: every complete line of buffer is cut off, trimmed
\* and, unless empty, parsed; a non-empty response is added to full and
\* written as a delta line, an error is written as an error line, a line that
\* does not parse is ignored
Drain(buf, acc, lines) ==
  LET idx == IndexOfNewline(buf)
      line == Trim(SubSeq(buf, 1, idx - 1))
      rest == SubSeq(buf, idx + 1, Len(buf))
      data == ParseLine(line)
  IN IF idx = 0 THEN [buffer |-> buf, full |-> acc, lines |-> lines]
     ELSE IF line = <<>> \/ ~data.ok THEN Drain(rest, acc, lines)
     ELSE IF data.kind = "response" /\ data.text # ""
     THEN Drain(rest, Append(acc, data.text),
                Append(lines, [type |-> "delta", text |-> data.text]))
     ELSE IF data.kind = "error" /\ data.text # ""
     THEN Drain(rest, acc, Append(lines, [type |-> "error", text |-> data.text]))
     ELSE Drain(rest, acc, lines)

\* extractJson on text without fence and blanks: from the first "{" to the
\* last "}" when there are both, in that order
extractJson(text) ==
  LET opens == {i \in DOMAIN text : text[i] = "{"}
      closes == {i \in DOMAIN text : text[i] = "}"}
      start == IF opens = {} THEN 0 ELSE CHOOSE i \in opens : \A j \in opens : i <= j
      end == IF closes = {} THEN 0 ELSE CHOOSE i \in closes : \A j \in closes : i >= j
  IN IF start >= 1 /\ end > start THEN SubSeq(text, start, end) ELSE text

\* the texts over "{" and "}" that JSON.parse accepts
JsonParses(text) == text = <<"{", "}">>

InitStream ==
  /\ wire \in Upstreams /\ sent = 0 /\ buffer = <<>> /\ full = <<>>
  /\ written = <<>> /\ spc = "reading"
  /\ ResolverIdle /\ PipelineIdle /\ RenderIdle

\* reader.read() returns the next chunk: it is added to buffer and the
\* complete lines of buffer are consumed
StreamRead ==
  /\ spc = "reading"
  /\ sent < Len(wire)
  /\ \E n \in 1..MaxChunk :
       /\ sent + n <= Len(wire)
       /\ LET r == Drain(buffer \o SubSeq(wire, sent + 1, sent + n), full, <<>>)
          IN /\ buffer' = r.buffer
             /\ full' = r.full
             /\ written' = written \o r.lines
       /\ sent' = sent + n
  /\ UNCHANGED <<wire, spc, resolverVars, pipelineVars, renderVars>>

\* reader.read() reports done: the assembled text is parsed and the spec line
\* or the error line is written; what is left in buffer is not looked at.
\* An empty object normalizes to a spec the schema accepts.
StreamEnd ==
  /\ spc = "reading"
  /\ sent = Len(wire)
  /\ written' =
       Append(written,
              IF JsonParses(extractJson(full)) THEN [type |-> "spec", text |-> ""]
              ELSE [type |-> "error", text |-> "ollama_invalid_json"])
  /\ spc' = "ended"
  /\ UNCHANGED <<wire, sent, buffer, full, resolverVars, pipelineVars, renderVars>>

NextStream == StreamRead \/ StreamEnd

SpecStream == InitStream /\ [][NextStream]_vars

RECURSIVE SplitLines(_)
\* the lines of the upstream body, the last one whether terminated or not
SplitLines(text) ==
  LET idx == IndexOfNewline(text)
  IN IF idx = 0 THEN <<text>>
     ELSE <<SubSeq(text, 1, idx - 1)>> \o SplitLines(SubSeq(text, idx + 1, Len(text)))

RECURSIVE FragmentsOf(_)
\* the non-empty response fragments of a list of lines, in order
FragmentsOf(lines) ==
  IF lines = <<>> THEN <<>>
  ELSE LET data == ParseLine(Trim(Head(lines)))
       IN (IF data.ok /\ data.kind = "response" /\ data.text # ""
           THEN <<data.text>> ELSE <<>>) \o FragmentsOf(Tail(lines))

\* C27 as the spec states it: the text the server parses as the final document
\* is every response fragment the upstream sent, in arrival order, however the
\* bytes are cut into chunks and also when the last line has no newline; the
\* spec or error line that ends the stream comes after all delta lines.
C27_Original ==
  spc = "ended" =>
    /\ full = FragmentsOf(SplitLines(wire))
    /\ \A i \in DOMAIN written : written[i].type = "delta" => i < Len(written)
    /\ written[Len(written)].type \in {"spec", "error"}

====
